---- MODULE Spec2Model ----
(***************************************************************************)
(* Module-scoped question-paper generation pipeline                        *)
(* (app/agents/question_generator.py, app/models/__init__.py).             *)
(*                                                                         *)
(* One request is followed through generate_question_paper: the syllabus   *)
(* is parsed into modules, the selected content is embedded in a prompt,   *)
(* the completion service is awaited, and its reply is sliced, parsed,     *)
(* defaulted, constructed as a typed paper and validated.                  *)
(*                                                                         *)
(* JSON values are tagged records [t, v]; a dict is a function from key    *)
(* strings to JSON values, so a key is absent when it is not in DOMAIN.    *)
(* Typed (pydantic) objects are untagged records; Optional fields keep     *)
(* the tagged form (JNull or JStr).                                        *)
(***************************************************************************)
EXTENDS Integers, Sequences, FiniteSets, TLC

VARIABLES
    pc,              \* stage of generate_question_paper about to run
    request,         \* QuestionGenerationRequest
    question_limits, \* QuestionPaperGenerator.question_limits
    now,             \* time.time()
    start_time,      \* local start_time
    all_modules,     \* result of _parse_all_modules_from_syllabus
    module_content,  \* result of _extract_module_content
    prompt,          \* result of _create_generation_prompt
    calls,           \* number of completion-service invocations
    llm_call,        \* arguments of the completion-service invocation
    raw_response,    \* text returned by _generate_with_ollama
    parsed_data,     \* parsed_data after defaulting
    question_paper,  \* typed GeneratedQuestionPaper
    result,          \* QuestionGenerationResponse
    raised,          \* exception escaping generate_question_paper
    log,             \* logger.warning events
    trace,           \* stages executed so far
    fault,           \* the error first raised by a failing stage
    form,            \* form fields posted to /generate-question-paper, or the
                     \* arguments given to QuestionGenerationRequest
    http,            \* outcome of the endpoint, or of the construction
    tasks,           \* the calls of generate_question_paper in flight on the
                     \* module-level question_generator, one record per call
    hybrid           \* one call of HybridClient.generate_completion

vars == <<pc, request, question_limits, now, start_time, all_modules, module_content,
          prompt, calls, llm_call, raw_response, parsed_data, question_paper,
          result, raised, log, trace, fault, form, http, tasks, hybrid>>

\* the state outside generate_question_paper
inbound == <<form, http, tasks, hybrid>>

-----------------------------------------------------------------------------
(* Bounds of the model *)

MaxStart == 1      \* time.time() at entry ranges over 0..MaxStart
MaxLatency == 1    \* the completion call takes 0..MaxLatency ticks
MaxRawLen == 2     \* reply texts with stray braces have at most MaxRawLen tokens
MaxDelta == 1      \* reply papers hold count-MaxDelta..count+MaxDelta questions

-----------------------------------------------------------------------------
(* JSON values *)

None == "None"
NoneObj == [none |-> TRUE]
JNull == [t |-> "null"]
JInt(n) == [t |-> "int", v |-> n]
JStr(s) == [t |-> "str", v |-> s]
JBool(b) == [t |-> "bool", v |-> b]
JList(s) == [t |-> "list", v |-> s]
JDict(f) == [t |-> "dict", v |-> f]

EmptyDict == [k \in {} |-> JNull]

IsDict(j) == j.t = "dict"
IsList(j) == j.t = "list"

\* dict.setdefault(k, val): the dict is changed only when k is absent
SetDefault(d, k, val) == IF k \in DOMAIN d THEN d ELSE d @@ (k :> val)

\* d[k] = val
DictSet(d, k, val) == [x \in DOMAIN d \cup {k} |-> IF x = k THEN val ELSE d[x]]

\* dict.get(k, dflt)
Get(d, k, dflt) == IF k \in DOMAIN d THEN d[k] ELSE dflt

\* str(x) of a JSON scalar inside an f-string
PyStr(j) ==
    CASE j.t = "int" -> ToString(j.v)
      [] j.t = "str" -> j.v
      [] OTHER -> None

StrList(s) == JList([i \in DOMAIN s |-> JStr(s[i])])

-----------------------------------------------------------------------------
(* Test types and the profile table *)

TestTypes == {"CAT-1", "CAT-2", "FAT"}

\* a table whose FAT total does not follow from its count and marks
QuestionLimits_short ==
    [tt \in TestTypes |->
        IF tt = "FAT" THEN [count |-> 10, marks_each |-> 10, total |-> 90]
                      ELSE [count |-> 5, marks_each |-> 10, total |-> 50]]

\* QuestionPaperGenerator.question_limits as __init__ builds it (lines 26-30)
QuestionLimits ==
    [tt \in TestTypes |->
        IF tt = "FAT" THEN [count |-> 10, marks_each |-> 10, total |-> 100]
                      ELSE [count |-> 5, marks_each |-> 10, total |-> 50]]

-----------------------------------------------------------------------------
(* Syllabus text.  A line is its stripped text together with its lexical   *)
(* analysis: the leading keyword, whether a separator stands between the   *)
(* keyword and the digits, the digits, and whether a separator follows.    *)

Line(raw, kw, presep, digits, postsep) ==
    [raw |-> raw, kw |-> kw, presep |-> presep, digits |-> digits, postsep |-> postsep]

Text(raw) == Line(raw, "none", FALSE, "", FALSE)
Blank == Text("")

Syllabi ==
    { << Line("Module 1: LED basics", "module", FALSE, "1", TRUE),
         Text("LED and resistor circuits"),
         Blank,
         Line("Module 2: Timers", "module", FALSE, "2", TRUE),
         Text("Timer and counter modes") >>,
      << Text("Course overview"),
         Line("Chapter 3 - Interrupts", "chapter", FALSE, "3", TRUE),
         Text("Interrupt vectors") >> }

ModuleLists == { <<"Module 1">>, <<"Module 2", "Module 1">>, <<"Module 9">> }

Requests ==
    [syllabus_text : Syllabi, test_type : TestTypes, modules : ModuleLists]

\* the five patterns of module_patterns, in order; "" when the line does not match
MatchPattern(i, l) ==
    CASE i = 1 -> IF l.kw = "module" /\ ~l.presep /\ l.digits # "" THEN l.digits ELSE ""
      [] i = 2 -> IF l.kw = "module" /\ l.digits # "" THEN l.digits ELSE ""
      [] i = 3 -> IF l.kw = "chapter" /\ ~l.presep /\ l.digits # "" THEN l.digits ELSE ""
      [] i = 4 -> IF l.kw = "unit" /\ ~l.presep /\ l.digits # "" THEN l.digits ELSE ""
      [] OTHER -> IF l.kw = "none" /\ l.digits # "" /\ l.postsep THEN l.digits ELSE ""

\* digits captured by the first pattern that matches, "" when none does
HeaderDigits(l) ==
    IF \E i \in 1..5 : MatchPattern(i, l) # ""
    THEN MatchPattern(CHOOSE i \in 1..5 :
                         /\ MatchPattern(i, l) # ""
                         /\ \A j \in 1..(i - 1) : MatchPattern(j, l) = "", l)
    ELSE ""

\* modules.setdefault(key, content): the first content of a key stays
DictPut_first(m, key, content) ==
    IF \E i \in DOMAIN m : m[i].key = key
    THEN m
    ELSE Append(m, [key |-> key, content |-> content])

\* modules[key] = content on an insertion-ordered dict
DictPut(m, key, content) ==
    IF \E i \in DOMAIN m : m[i].key = key
    THEN [i \in DOMAIN m |-> IF m[i].key = key THEN [key |-> key, content |-> content] ELSE m[i]]
    ELSE Append(m, [key |-> key, content |-> content])

DictKeys(m) == [i \in DOMAIN m |-> m[i].key]
DictHas(m, key) == \E i \in DOMAIN m : m[i].key = key
DictGet(m, key) == m[CHOOSE i \in DOMAIN m : m[i].key = key].content

\* the loop without the flush of the last module after it
RECURSIVE ParseLoop_noflush(_, _, _, _, _)
ParseLoop_noflush(lines, i, modules, current_module, current_content) ==
    IF i > Len(lines) THEN modules
    ELSE LET l == lines[i]
             d == HeaderDigits(l)
         IN  IF l.raw = ""
             THEN ParseLoop_noflush(lines, i + 1, modules, current_module, current_content)
             ELSE IF d # ""
             THEN ParseLoop_noflush(lines, i + 1,
                                    IF current_module # None /\ current_content # <<>>
                                    THEN DictPut(modules, current_module, current_content)
                                    ELSE modules,
                                    "Module " \o d, <<l.raw>>)
             ELSE IF current_module # None
             THEN ParseLoop_noflush(lines, i + 1, modules, current_module,
                                    Append(current_content, l.raw))
             ELSE ParseLoop_noflush(lines, i + 1, modules, current_module, current_content)

\* the loop of _parse_all_modules_from_syllabus over lines[i..]
RECURSIVE ParseLoop(_, _, _, _, _)
ParseLoop(lines, i, modules, current_module, current_content) ==
    IF i > Len(lines)
    THEN IF current_module # None /\ current_content # <<>>
         THEN DictPut(modules, current_module, current_content)
         ELSE modules
    ELSE LET l == lines[i]
             d == HeaderDigits(l)
         IN  IF l.raw = "" THEN ParseLoop(lines, i + 1, modules, current_module, current_content)
             ELSE IF d # ""
             THEN ParseLoop(lines, i + 1,
                            IF current_module # None /\ current_content # <<>>
                            THEN DictPut(modules, current_module, current_content)
                            ELSE modules,
                            "Module " \o d, <<l.raw>>)
             ELSE IF current_module # None
             THEN ParseLoop(lines, i + 1, modules, current_module, Append(current_content, l.raw))
             ELSE ParseLoop(lines, i + 1, modules, current_module, current_content)

_parse_all_modules_from_syllabus(syllabus_text) ==
    ParseLoop(syllabus_text, 1, <<>>, None, <<>>)

DigitStrings == {"1", "2", "3", "4", "5", "6", "7", "8", "9", "10"}

\* the digit runs that stand in the module names of the model
NumberTexts == DigitStrings \cup {"0", "01", "03", "11"}

\* the number of a name as an integer written without leading zeros
_extract_module_number_value(module_name) ==
    IF \E d \in NumberTexts : module_name = "Module " \o d
    THEN LET d == CHOOSE x \in NumberTexts : module_name = "Module " \o x
         IN  CASE d = "01" -> "1"
               [] d = "03" -> "3"
               [] OTHER -> d
    ELSE None

\* re.search(r'(\d+)', module_name) on a name of the form "Module <digits>":
\* the digits as they are written
_extract_module_number(module_name) ==
    IF \E d \in NumberTexts : module_name = "Module " \o d
    THEN CHOOSE d \in NumberTexts : module_name = "Module " \o d
    ELSE None

_create_error_response(selected_modules, available_modules) ==
    [kind |-> "error", selected |-> selected_modules, available |-> available_modules,
     found |-> <<>>, sections |-> <<>>]

\* a selector that gives a module it cannot find the first module of the syllabus
RECURSIVE SelectLoop_fallback(_, _, _, _)
SelectLoop_fallback(mods, selected_modules, i, acc) ==
    IF i > Len(selected_modules) THEN acc
    ELSE LET module_name == selected_modules[i]
         IN  IF DictHas(mods, module_name)
             THEN SelectLoop_fallback(mods, selected_modules, i + 1,
                                      Append(acc, [name |-> module_name,
                                                   content |-> DictGet(mods, module_name)]))
             ELSE IF mods # <<>>
             THEN SelectLoop_fallback(mods, selected_modules, i + 1,
                                      Append(acc, [name |-> module_name,
                                                   content |-> mods[1].content]))
             ELSE SelectLoop_fallback(mods, selected_modules, i + 1, acc)

\* the loop of _extract_module_content over selected_modules[i..]
RECURSIVE SelectLoop(_, _, _, _)
SelectLoop(mods, selected_modules, i, acc) ==
    IF i > Len(selected_modules) THEN acc
    ELSE LET module_name == selected_modules[i]
             module_num == _extract_module_number(module_name)
             alt == {k \in DOMAIN mods : _extract_module_number(mods[k].key) = module_num}
         IN  IF DictHas(mods, module_name)
             THEN SelectLoop(mods, selected_modules, i + 1,
                             Append(acc, [name |-> module_name,
                                          content |-> DictGet(mods, module_name)]))
             ELSE IF module_num # None /\ alt # {}
             THEN SelectLoop(mods, selected_modules, i + 1,
                             Append(acc, [name |-> module_name,
                                          content |-> mods[CHOOSE k \in alt :
                                                              \A k2 \in alt : k <= k2].content]))
             ELSE SelectLoop(mods, selected_modules, i + 1, acc)

_extract_module_content(mods, selected_modules) ==
    LET sections == SelectLoop(mods, selected_modules, 1, <<>>)
        found_modules == [i \in DOMAIN sections |-> sections[i].name]
    IN  IF found_modules = <<>>
        THEN _create_error_response(selected_modules, DictKeys(mods))
        ELSE [kind |-> "strict", selected |-> selected_modules, available |-> <<>>,
              found |-> found_modules, sections |-> sections]

_get_test_type_rules(test_type) ==
    CASE test_type = "CAT-1" -> "CAT-1 RULES"
      [] test_type = "CAT-2" -> "CAT-2 RULES"
      [] test_type = "FAT" -> "FAT RULES"
      [] OTHER -> ""

_create_generation_prompt(limits, req, content) ==
    LET test_config == limits[req.test_type]
    IN  [test_type |-> req.test_type,
         count |-> test_config.count,
         marks_each |-> test_config.marks_each,
         total |-> test_config.total,
         modules_str |-> req.modules,
         rules |-> _get_test_type_rules(req.test_type),
         module_content |-> content,
         template_module |-> IF req.modules # <<>> THEN req.modules[1] ELSE "Module 1"]

-----------------------------------------------------------------------------
(* Errors and messages.  An exception is its message: the chain of         *)
(* prefixes put in front of it by the handlers it passed, and the error    *)
(* that started it.  f"{prefix}: {str(e)}" puts one more prefix in front.  *)

Err(kind, names, a, b) == [kind |-> kind, names |-> names, a |-> a, b |-> b]

Exc(e) == [wrap |-> <<>>, err |-> e]

Wrap(prefix, m) == [wrap |-> <<prefix>> \o m.wrap, err |-> m.err]

\* sub occurs in m as a substring: m is sub with further prefixes in front
Contains(m, sub) ==
    /\ m.err = sub.err
    /\ Len(sub.wrap) <= Len(m.wrap)
    /\ SubSeq(m.wrap, Len(m.wrap) - Len(sub.wrap) + 1, Len(m.wrap)) = sub.wrap

NoMessage == [wrap |-> <<>>, err |-> Err("none", <<>>, 0, 0)]
SuccessMessage == [wrap |-> <<>>, err |-> Err("Question paper generated successfully", <<>>, 0, 0)]

Ok(value) == [ok |-> TRUE, value |-> value, exc |-> NoMessage]
Raise(m) == [ok |-> FALSE, value |-> NoneObj, exc |-> m]

-----------------------------------------------------------------------------
(* Module labels as they arrive at QuestionGenerationRequest               *)
(* (app/models/__init__.py, lines 167-201).  A label is its text cut at    *)
(* the places the validator's patterns look at: what stands before the     *)
(* keyword, the keyword as spelled, the gap between keyword and digits,    *)
(* the digits, what follows them, and whether whitespace surrounds it.     *)

Token(pre, kw, gap, digits, post, pad) ==
    [pre |-> pre, kw |-> kw, gap |-> gap, digits |-> digits, post |-> post, pad |-> pad]

\* the text of a label without the surrounding whitespace
Render(t) == t.pre \o t.kw \o t.gap \o t.digits \o t.post

Keywords == {"Module", "module", "MODULE"}   \* spellings re.IGNORECASE accepts
Spaces == {" ", "  "}                        \* texts \s+ matches

Label(digits) == Token("", "Module", " ", digits, "", FALSE)

ModuleTokens ==
    { Label("1"), Label("2"), Label("10"), Label("11"), Label("03"),
      Token("", "module", " ", "1", "", FALSE),
      Token("", "MODULE", "  ", "2", "", TRUE),
      Token("", "", "", "1", "", FALSE),
      Token("", "", "", "10", "", TRUE),
      Token("", "", "", "11", "", FALSE),
      Token("", "", "", "0", "", FALSE),
      Token("", "MODULE", "-", "3", "", FALSE),
      Token("", "Module", "", "1", "", FALSE),
      Token("my ", "module", " ", "1", "", FALSE),
      Token("", "Module", " ", "1", "a", FALSE),
      Token("Intro", "", "", "", "", FALSE),
      Token("", "", "", "", "", FALSE),
      Token("", "", "", "", "", TRUE) }

\* the label a text is: the reading of a string the validator is given again
Lex(s) == CHOOSE t \in ModuleTokens : ~t.pad /\ Render(t) = s

\* module.strip()
StripToken(t) == [t EXCEPT !.pad = FALSE]

\* re.sub(r'module\s+(\d+)', r'Module \1', module, flags=re.IGNORECASE)
SubModule(t) ==
    IF t.kw \in Keywords /\ t.gap \in Spaces /\ t.digits # ""
    THEN [t EXCEPT !.kw = "Module", !.gap = " "]
    ELSE t

\* re.search(r'\d+', module) in place of re.match(r'^\d+$', module)
BareDigits_search(t) == t.digits # ""

\* re.match(r'^\d+$', module)
BareDigits(t) ==
    t.pre = "" /\ t.kw = "" /\ t.gap = "" /\ t.post = "" /\ t.digits # ""

\* f"Module {module}": in front of digits alone the prefix is the keyword and
\* the gap, in front of anything else it is text before that label's keyword
PrefixModule(t) ==
    IF t.pre = "" /\ t.kw = "" /\ t.gap = ""
    THEN [t EXCEPT !.kw = "Module", !.gap = " "]
    ELSE [t EXCEPT !.pre = "Module " \o t.pre]

\* the format check without its end anchor
FormatOk_open(n) ==
    n.pre = "" /\ n.kw = "Module" /\ n.gap \in Spaces /\ n.digits \in DigitStrings

\* re.match(r'^Module\s+([1-9]|10)$', module_normalized)
FormatOk(n) ==
    n.pre = "" /\ n.kw = "Module" /\ n.gap \in Spaces /\ n.digits \in DigitStrings
        /\ n.post = ""

Validated(value) == [ok |-> TRUE, value |-> value, exc |-> NoMessage]
Rejected(m) == [ok |-> FALSE, value |-> <<>>, exc |-> m]

\* the loop of validate_modules over v[i..] (lines 180-196) and its end (198-201)
RECURSIVE ValidateLoop(_, _, _)
ValidateLoop(v, i, validated_modules) ==
    IF i > Len(v)
    THEN IF validated_modules = <<>>
         THEN Rejected(Exc(Err("At least one module must be selected", <<>>, 0, 0)))
         ELSE Validated(validated_modules)
    ELSE LET module == StripToken(v[i])
             module_normalized == IF BareDigits(module) THEN PrefixModule(module)
                                  ELSE SubModule(module)
         IN  IF Render(module) = "" THEN ValidateLoop(v, i + 1, validated_modules)
             ELSE IF ~FormatOk(module_normalized)
             THEN Rejected(Exc(Err("Invalid module", <<Render(module)>>, 1, 10)))
             ELSE ValidateLoop(v, i + 1, Append(validated_modules, Render(module_normalized)))

\* a validator that keeps every label as it normalized it
validate_modules_unchecked(v) ==
    LET kept == SelectSeq(v, LAMBDA t : Render(t) # "")
    IN  IF kept = <<>>
        THEN Rejected(Exc(Err("At least one module must be selected", <<>>, 0, 0)))
        ELSE Validated([i \in DOMAIN kept |->
                           Render(IF BareDigits(kept[i]) THEN PrefixModule(kept[i])
                                  ELSE SubModule(kept[i]))])

validate_modules(v) == ValidateLoop(v, 1, <<>>)

MinSyllabusLength == 10   \* syllabus_text: min_length=10
MaxModules == 10          \* modules: max_items=10

\* len() of a text given as its lines, joined by newlines
RECURSIVE Chars(_)
Chars(lines) ==
    IF lines = <<>> THEN 0
    ELSE Len(lines[1].raw) + (IF Len(lines) > 1 THEN 1 ELSE 0) + Chars(Tail(lines))

\* the checks of the modules field: the list constraints, then the validator
ModulesField(modules) ==
    IF Len(modules) < 1
    THEN Rejected(Exc(Err("too_short", <<>>, 1, Len(modules))))
    ELSE IF Len(modules) > MaxModules
    THEN Rejected(Exc(Err("too_long", <<>>, MaxModules, Len(modules))))
    ELSE validate_modules(modules)

\* QuestionGenerationRequest(syllabus_text=..., test_type=..., modules=...):
\* every field is checked and the errors of all of them are reported together
QuestionGenerationRequest(syllabus_text, test_type, modules) ==
    LET m == ModulesField(modules)
        errors ==
            (IF Chars(syllabus_text) < MinSyllabusLength
             THEN <<"syllabus_text", "string_too_short">> ELSE <<>>)
            \o (IF test_type \notin TestTypes THEN <<"test_type", "enum">> ELSE <<>>)
            \o (IF m.ok THEN <<>> ELSE <<"modules", m.exc.err.kind>> \o m.exc.err.names)
    IN  IF errors = <<>>
        THEN Ok([syllabus_text |-> syllabus_text, test_type |-> test_type,
                 modules |-> m.value])
        ELSE Raise(Exc(Err("ValidationError", errors, 0, 0)))

-----------------------------------------------------------------------------
(* Reply text.  A text is a sequence of tokens: an opening brace, a        *)
(* closing brace, a run of prose without braces, or a rendered JSON object *)
(* (which starts with an opening and ends with a closing brace).           *)

OpenBrace == [t |-> "{"]
CloseBrace == [t |-> "}"]
Prose == [t |-> "prose"]
Whitespace == [t |-> "ws"]

\* str.strip(): leading and trailing whitespace removed
RECURSIVE Strip(_)
Strip(raw) ==
    IF raw # <<>> /\ raw[1].t = "ws" THEN Strip(Tail(raw))
    ELSE IF raw # <<>> /\ raw[Len(raw)].t = "ws" THEN Strip(SubSeq(raw, 1, Len(raw) - 1))
    ELSE raw

\* raw_response.find('{'), as a token position; 0 when there is none
FindOpen(raw) ==
    LET at == {i \in DOMAIN raw : raw[i].t \in {"{", "dict"}}
    IN  IF at = {} THEN 0 ELSE CHOOSE i \in at : \A j \in at : i <= j

\* find in place of rfind: the first closing brace
RFindClose_first(raw) ==
    LET at == {i \in DOMAIN raw : raw[i].t \in {"}", "dict"}}
    IN  IF at = {} THEN 0 ELSE CHOOSE i \in at : \A j \in at : i <= j

\* raw_response.rfind('}'), as a token position; 0 when there is none
RFindClose(raw) ==
    LET at == {i \in DOMAIN raw : raw[i].t \in {"}", "dict"}}
    IN  IF at = {} THEN 0 ELSE CHOOSE i \in at : \A j \in at : i >= j

\* the slice without the "+ 1" of json_end
CleanJson_short(raw) == SubSeq(raw, FindOpen(raw), RFindClose(raw) - 1)

\* raw_response[json_start:json_end]
CleanJson(raw) == SubSeq(raw, FindOpen(raw), RFindClose(raw))

\* json.loads on a slice of tokens
JsonLoads(clean_json) ==
    LET tokens == SelectSeq(clean_json, LAMBDA x : x.t # "ws")
    IN  IF Len(tokens) = 1 /\ tokens[1].t = "dict" THEN Ok(tokens[1].v)
        ELSE IF Len(tokens) = 2 /\ tokens[1].t = "{" /\ tokens[2].t = "}" THEN Ok(EmptyDict)
        ELSE Raise(Exc(Err("JSONDecodeError", <<>>, 0, 0)))

required_fields == <<"metadata", "paper", "validation">>

\* every required field reported as soon as one is missing
MissingFields_all(parsed) ==
    IF \E i \in DOMAIN required_fields : required_fields[i] \notin DOMAIN parsed
    THEN required_fields ELSE <<>>

MissingFields(parsed) ==
    SelectSeq(required_fields, LAMBDA field : field \notin DOMAIN parsed)

-----------------------------------------------------------------------------
(* Defaulting of an incomplete reply (lines 485-526) *)

\* part defaults without the module default
FixPart_no_module(part, question, i, limits, req) ==
    IF ~IsDict(part) THEN part
    ELSE LET p1 == SetDefault(part.v, "label", JNull)
             p2 == SetDefault(p1, "marks",
                              Get(question, "marks", JInt(limits[req.test_type].marks_each)))
             p3 == SetDefault(p2, "text",
                              JStr("Question " \o PyStr(Get(question, "q_no", JInt(i))) \o " content"))
         IN  JDict(p3)

FixPart(part, question, i, limits, req) ==
    IF ~IsDict(part) THEN part
    ELSE LET test_config == limits[req.test_type]
             p1 == SetDefault(part.v, "label", JNull)
             p2 == SetDefault(p1, "marks", Get(question, "marks", JInt(test_config.marks_each)))
             p3 == SetDefault(p2, "text",
                              JStr("Question " \o PyStr(Get(question, "q_no", JInt(i))) \o " content"))
             p4 == SetDefault(p3, "module", StrList(SubSeq(req.modules, 1, 1)))
         IN  JDict(p4)

\* question defaults that assign the profile's marks instead of defaulting them
FixQuestion_assign(question, i, limits, req) ==
    IF ~IsDict(question) THEN question
    ELSE LET test_config == limits[req.test_type]
             q1 == SetDefault(question.v, "q_no", JInt(i))
             q2 == DictSet(q1, "marks", JInt(test_config.marks_each))
             q3 == SetDefault(q2, "instructions", JNull)
             q4 == IF "parts" \notin DOMAIN q3 \/ ~IsList(q3["parts"])
                   THEN DictSet(q3, "parts", JList(<<>>))
                   ELSE q3
             parts == q4["parts"].v
         IN  JDict([q4 EXCEPT !["parts"] =
                       JList([k \in DOMAIN parts |-> FixPart(parts[k], q4, i, limits, req)])])

\* i is the 1-based position of the question, the code's i + 1
FixQuestion(question, i, limits, req) ==
    IF ~IsDict(question) THEN question
    ELSE LET test_config == limits[req.test_type]
             q1 == SetDefault(question.v, "q_no", JInt(i))
             q2 == SetDefault(q1, "marks", JInt(test_config.marks_each))
             q3 == SetDefault(q2, "instructions", JNull)
             q4 == IF "parts" \notin DOMAIN q3 \/ ~IsList(q3["parts"])
                   THEN DictSet(q3, "parts", JList(<<>>))
                   ELSE q3
             parts == q4["parts"].v
         IN  JDict([q4 EXCEPT !["parts"] =
                       JList([k \in DOMAIN parts |-> FixPart(parts[k], q4, i, limits, req)])])

FixMetadata(metadata, limits, req) ==
    LET test_config == limits[req.test_type]
        m0 == IF ~IsDict(metadata) THEN EmptyDict ELSE metadata.v
        m1 == SetDefault(m0, "title", JStr(req.test_type \o " Question Paper"))
        m2 == SetDefault(m1, "test_type", JStr(req.test_type))
        m3 == SetDefault(m2, "modules", StrList(req.modules))
        m4 == SetDefault(m3, "total_marks", JInt(test_config.total))
        m5 == SetDefault(m4, "notes", JStr("Generated based on provided syllabus"))
    IN  JDict(m5)

\* validation defaults without the unique_questions default
FixValidation_no_unique(validation, limits, req) ==
    LET test_config == limits[req.test_type]
        v0 == IF ~IsDict(validation) THEN EmptyDict ELSE validation.v
        v1 == SetDefault(v0, "total_marks_check", JInt(test_config.total))
    IN  JDict(v1)

FixValidation(validation, limits, req) ==
    LET test_config == limits[req.test_type]
        v0 == IF ~IsDict(validation) THEN EmptyDict ELSE validation.v
        v1 == SetDefault(v0, "total_marks_check", JInt(test_config.total))
        v2 == SetDefault(v1, "unique_questions", JBool(TRUE))
    IN  JDict(v2)

\* the block under "Create fallback data if AI response is incomplete"
ApplyDefaults(parsed, limits, req) ==
    IF "paper" \in DOMAIN parsed /\ IsList(parsed["paper"])
    THEN LET paper == parsed["paper"].v
         IN  [parsed EXCEPT
                 !["metadata"] = FixMetadata(@, limits, req),
                 !["validation"] = FixValidation(@, limits, req),
                 !["paper"] = JList([i \in DOMAIN paper |->
                                        FixQuestion(paper[i], i, limits, req)])]
    ELSE parsed

-----------------------------------------------------------------------------
(* Typed construction of GeneratedQuestionPaper from parsed_data.  Each    *)
(* Valid* predicate is the pydantic model's field constraints; each Make*  *)
(* operator is the typed object built from a value that satisfies them.    *)

IsStr(j) == j.t = "str"
IsInt(j) == j.t = "int"
IsOptionalStr(d, k) == k \notin DOMAIN d \/ d[k].t \in {"null", "str"}
IsStrList(j) == IsList(j) /\ \A i \in DOMAIN j.v : IsStr(j.v[i])
Untag(s) == [i \in DOMAIN s |-> s[i].v]

\* class QuestionPart
ValidPart(j) ==
    /\ IsDict(j)
    /\ IsOptionalStr(j.v, "label")
    /\ "marks" \in DOMAIN j.v /\ IsInt(j.v["marks"])
    /\ j.v["marks"].v >= 1 /\ j.v["marks"].v <= 10
    /\ "text" \in DOMAIN j.v /\ IsStr(j.v["text"]) /\ Len(j.v["text"].v) >= 10
    /\ "module" \in DOMAIN j.v /\ IsStrList(j.v["module"])

MakePart(j) ==
    [label |-> Get(j.v, "label", JNull),
     marks |-> j.v["marks"].v,
     text |-> j.v["text"].v,
     module |-> Untag(j.v["module"].v)]

\* class Question
\* class Question with marks allowed up to 11
ValidQuestion_le11(j) ==
    /\ IsDict(j)
    /\ "q_no" \in DOMAIN j.v /\ IsInt(j.v["q_no"]) /\ j.v["q_no"].v >= 1
    /\ "marks" \in DOMAIN j.v /\ IsInt(j.v["marks"])
    /\ j.v["marks"].v >= 1 /\ j.v["marks"].v <= 11
    /\ "parts" \in DOMAIN j.v /\ IsList(j.v["parts"]) /\ Len(j.v["parts"].v) >= 1
    /\ \A k \in DOMAIN j.v["parts"].v : ValidPart(j.v["parts"].v[k])
    /\ IsOptionalStr(j.v, "instructions")

\* class Question
ValidQuestion(j) ==
    /\ IsDict(j)
    /\ "q_no" \in DOMAIN j.v /\ IsInt(j.v["q_no"]) /\ j.v["q_no"].v >= 1
    /\ "marks" \in DOMAIN j.v /\ IsInt(j.v["marks"])
    /\ j.v["marks"].v >= 1 /\ j.v["marks"].v <= 10
    /\ "parts" \in DOMAIN j.v /\ IsList(j.v["parts"]) /\ Len(j.v["parts"].v) >= 1
    /\ \A k \in DOMAIN j.v["parts"].v : ValidPart(j.v["parts"].v[k])
    /\ IsOptionalStr(j.v, "instructions")

MakeQuestion(j) ==
    [q_no |-> j.v["q_no"].v,
     marks |-> j.v["marks"].v,
     parts |-> [k \in DOMAIN j.v["parts"].v |-> MakePart(j.v["parts"].v[k])],
     instructions |-> Get(j.v, "instructions", JNull)]

\* class QuestionPaperMetadata
ValidMetadata(j) ==
    /\ IsDict(j)
    /\ "title" \in DOMAIN j.v /\ IsStr(j.v["title"]) /\ Len(j.v["title"].v) >= 1
    /\ "test_type" \in DOMAIN j.v /\ IsStr(j.v["test_type"]) /\ j.v["test_type"].v \in TestTypes
    /\ "modules" \in DOMAIN j.v /\ IsStrList(j.v["modules"]) /\ Len(j.v["modules"].v) >= 1
    /\ "total_marks" \in DOMAIN j.v /\ IsInt(j.v["total_marks"]) /\ j.v["total_marks"].v >= 1
    /\ IsOptionalStr(j.v, "notes")

MakeMetadata(j) ==
    [title |-> j.v["title"].v,
     test_type |-> j.v["test_type"].v,
     modules |-> Untag(j.v["modules"].v),
     total_marks |-> j.v["total_marks"].v,
     notes |-> Get(j.v, "notes", JNull)]

\* class QuestionPaperValidation
ValidValidation(j) ==
    /\ IsDict(j)
    /\ "total_marks_check" \in DOMAIN j.v /\ IsInt(j.v["total_marks_check"])
    /\ "unique_questions" \in DOMAIN j.v /\ j.v["unique_questions"].t = "bool"

MakeValidation(j) ==
    [total_marks_check |-> j.v["total_marks_check"].v,
     unique_questions |-> j.v["unique_questions"].v]

\* class GeneratedQuestionPaper
GeneratedQuestionPaper(parsed) ==
    IF /\ ValidMetadata(parsed["metadata"])
       /\ IsList(parsed["paper"])
       /\ \A i \in DOMAIN parsed["paper"].v : ValidQuestion(parsed["paper"].v[i])
       /\ ValidValidation(parsed["validation"])
    THEN Ok([metadata |-> MakeMetadata(parsed["metadata"]),
             paper |-> [i \in DOMAIN parsed["paper"].v |-> MakeQuestion(parsed["paper"].v[i])],
             validation |-> MakeValidation(parsed["validation"])])
    ELSE Raise(Exc(Err("ValidationError", <<>>, 0, 0)))

-----------------------------------------------------------------------------
(* Business rules: _validate_question_paper *)

RECURSIVE SumMarks(_)
SumMarks(paper) ==
    IF paper = <<>> THEN 0 ELSE paper[1].marks + SumMarks(Tail(paper))

\* covered_modules: the union of the module tags of all parts
CoveredModules(paper) ==
    UNION { UNION { {paper[i].parts[k].module[x] : x \in DOMAIN paper[i].parts[k].module}
                    : k \in DOMAIN paper[i].parts }
            : i \in DOMAIN paper }

RequestedModules(req) == {req.modules[i] : i \in DOMAIN req.modules}

\* a validator that checks the question count alone
_validate_question_paper_count_only(paper, limits, req) ==
    IF Len(paper.paper) # limits[req.test_type].count
    THEN Raise(Exc(Err("Expected questions, got", <<>>,
                       limits[req.test_type].count, Len(paper.paper))))
    ELSE Ok(paper)

\* a validator without the question-count check
_validate_question_paper_no_count(paper, limits, req) ==
    IF SumMarks(paper.paper) # limits[req.test_type].total
    THEN Raise(Exc(Err("Expected total marks, got", <<>>,
                       limits[req.test_type].total, SumMarks(paper.paper))))
    ELSE Ok(paper)

\* the three checks that raise, in the code's order
_validate_question_paper(paper, limits, req) ==
    LET test_config == limits[req.test_type]
        actual_total == SumMarks(paper.paper)
        wrong == {i \in DOMAIN paper.paper : paper.paper[i].marks # test_config.marks_each}
        q == paper.paper[CHOOSE i \in wrong : \A j \in wrong : i <= j]
    IN  IF Len(paper.paper) # test_config.count
        THEN Raise(Exc(Err("Expected questions, got", <<>>, test_config.count, Len(paper.paper))))
        ELSE IF actual_total # test_config.total
        THEN Raise(Exc(Err("Expected total marks, got", <<>>, test_config.total, actual_total)))
        ELSE IF wrong # {}
        THEN Raise(Exc(Err("Question has marks, expected", <<ToString(q.q_no)>>,
                           q.marks, test_config.marks_each)))
        ELSE Ok(paper)

\* a coverage check that never warns
CoverageWarnings_silent(paper, req) == <<>>

\* a coverage check that warns as soon as one tag is not a requested module
CoverageWarnings_subset(paper, req) ==
    IF ~(CoveredModules(paper.paper) \subseteq RequestedModules(req))
    THEN <<[event |-> "Generated questions don't cover any requested modules",
            requested |-> req.modules,
            covered |-> CoveredModules(paper.paper)]>>
    ELSE <<>>

\* the coverage warning, logged when the checks above have passed
CoverageWarnings(paper, req) ==
    IF CoveredModules(paper.paper) \cap RequestedModules(req) = {}
    THEN <<[event |-> "Generated questions don't cover any requested modules",
            requested |-> req.modules,
            covered |-> CoveredModules(paper.paper)]>>
    ELSE <<>>

-----------------------------------------------------------------------------
(* _parse_and_validate_response up to the typed paper (lines 462-529) *)

ParseResponse(raw, limits, req) ==
    LET json_start == FindOpen(raw)
        json_end == RFindClose(raw)
        loaded == JsonLoads(CleanJson(raw))
        missing_fields == MissingFields(loaded.value)
    IN  IF json_start = 0 \/ json_end = 0
        THEN Raise(Wrap("Response validation failed",
                        Exc(Err("No valid JSON found in response", <<>>, 0, 0))))
        ELSE IF ~loaded.ok
        THEN Raise(Wrap("Invalid JSON response", loaded.exc))
        ELSE IF missing_fields # <<>>
        THEN Raise(Wrap("Response validation failed",
                        Exc(Err("Missing required top-level fields", missing_fields, 0, 0))))
        ELSE LET built == GeneratedQuestionPaper(ApplyDefaults(loaded.value, limits, req))
             IN  IF built.ok THEN built
                 ELSE Raise(Wrap("Response validation failed", built.exc))

\* parsed_data as the function leaves it: None until json.loads has returned
ParsedData(raw, limits, req) ==
    LET loaded == JsonLoads(CleanJson(raw))
    IN  IF FindOpen(raw) = 0 \/ RFindClose(raw) = 0 \/ ~loaded.ok THEN NoneObj
        ELSE IF MissingFields(loaded.value) # <<>> THEN loaded.value
        ELSE ApplyDefaults(loaded.value, limits, req)

-----------------------------------------------------------------------------
(* Replies of the completion service.  The reply the prompt's JSON         *)
(* template asks for is the ideal reply; the replies considered are the    *)
(* ideal one with one deviation at each level (a key dropped, a value      *)
(* replaced), and short texts with stray braces, prose and whitespace.     *)

GoodText == "Explain the working of the circuit"
OtherModule == "Module 3"

Without(d, k) == [x \in DOMAIN d \ {k} |-> d[x]]

\* a dict with one key dropped or one key's value taken from alts[k]
Deviations(d, alts) ==
    {Without(d, k) : k \in DOMAIN d}
        \cup UNION { {DictSet(d, k, a) : a \in alts[k]} : k \in DOMAIN alts }

TemplatePart(limits, req, tag) ==
    [label |-> JNull,
     marks |-> JInt(limits[req.test_type].marks_each),
     text |-> JStr(GoodText),
     module |-> StrList(tag)]

PartAlternatives(req) ==
    [label |-> {JStr("a")},
     marks |-> {JInt(0), JInt(5), JStr("ten")},
     text |-> {JStr("short"), JInt(1)},
     module |-> {JList(<<>>), StrList(<<OtherModule>>), StrList(<<req.modules[1], OtherModule>>),
                 JStr(req.modules[1])}]

PartReplies(limits, req) ==
    LET ideal == TemplatePart(limits, req, <<req.modules[1]>>)
    IN  {JStr("part"), JDict(EmptyDict), JDict(ideal)}
            \cup {JDict(d) : d \in Deviations(ideal, PartAlternatives(req))}

TemplateQuestion(limits, req, i, marks, tag) ==
    [q_no |-> JInt(i),
     marks |-> JInt(marks),
     parts |-> JList(<<JDict(TemplatePart(limits, req, tag))>>),
     instructions |-> JNull]

QuestionAlternatives(limits, req) ==
    [q_no |-> {JInt(0), JInt(7), JStr("one")},
     marks |-> {JInt(5), JInt(11), JStr("ten")},
     parts |-> {JStr("parts"), JList(<<>>)}
                  \cup {JList(<<p>>) : p \in PartReplies(limits, req)}
                  \cup {JList(<<JDict(TemplatePart(limits, req, <<req.modules[1]>>)),
                                JDict(TemplatePart(limits, req, <<OtherModule>>))>>)},
     instructions |-> {JStr("Answer all parts")}]

QuestionReplies(limits, req, i) ==
    LET ideal == TemplateQuestion(limits, req, i, limits[req.test_type].marks_each,
                                  <<req.modules[1]>>)
    IN  {JStr("question"), JDict(EmptyDict)}
            \cup {JDict(d) : d \in Deviations(ideal, QuestionAlternatives(limits, req))}

\* the papers all of whose questions are alike and complete
UniformPaper(limits, req, n, marks, tag) ==
    [i \in 1..n |-> JDict(TemplateQuestion(limits, req, i, marks, tag))]

PaperLengths(limits, req) ==
    {0, 1} \cup {n \in (limits[req.test_type].count - MaxDelta) ..
                       (limits[req.test_type].count + MaxDelta) : n >= 0}

UniformPapers(limits, req) ==
    {JList(UniformPaper(limits, req, n, b.marks, b.tag)) :
        n \in PaperLengths(limits, req),
        b \in {[marks |-> limits[req.test_type].marks_each, tag |-> <<req.modules[1]>>],
               [marks |-> limits[req.test_type].marks_each, tag |-> <<OtherModule>>],
               [marks |-> 5, tag |-> <<req.modules[1]>>]}}

\* the ideal paper of each length with its last question replaced
DeviantPapers(limits, req) ==
    UNION { {JList([UniformPaper(limits, req, n, limits[req.test_type].marks_each,
                                 <<req.modules[1]>>) EXCEPT ![n] = q]) :
                q \in QuestionReplies(limits, req, n)} :
            n \in PaperLengths(limits, req) \ {0} }

TemplatePaper(limits, req) ==
    JList(UniformPaper(limits, req, limits[req.test_type].count,
                       limits[req.test_type].marks_each, <<req.modules[1]>>))

PaperReplies(limits, req) ==
    {JStr("paper")} \cup UniformPapers(limits, req) \cup DeviantPapers(limits, req)

TemplateMetadata(limits, req) ==
    [title |-> JStr(req.test_type \o " Question Paper - Modules"),
     test_type |-> JStr(req.test_type),
     modules |-> StrList(req.modules),
     total_marks |-> JInt(limits[req.test_type].total),
     notes |-> JStr("Generated EXCLUSIVELY from the modules")]

MetadataAlternatives(limits, req) ==
    [title |-> {JStr(""), JInt(1)},
     test_type |-> {JStr(tt) : tt \in TestTypes \ {req.test_type}} \cup {JStr("QUIZ")},
     modules |-> {JList(<<>>), StrList(<<OtherModule>>), JStr("Module 1")},
     total_marks |-> {JInt(0), JInt(limits[req.test_type].total + 10), JStr("fifty")},
     notes |-> {JNull, JInt(1)}]

MetadataReplies(limits, req) ==
    {JStr("metadata"), JDict(EmptyDict), JDict(TemplateMetadata(limits, req))}
        \cup {JDict(d) : d \in Deviations(TemplateMetadata(limits, req),
                                          MetadataAlternatives(limits, req))}

TemplateValidation(limits, req) ==
    [total_marks_check |-> JInt(limits[req.test_type].total),
     unique_questions |-> JBool(TRUE)]

ValidationAlternatives(limits, req) ==
    [total_marks_check |-> {JInt(limits[req.test_type].total - 10), JStr("fifty")},
     unique_questions |-> {JBool(FALSE), JStr("yes")}]

ValidationReplies(limits, req) ==
    {JStr("validation"), JDict(EmptyDict), JDict(TemplateValidation(limits, req))}
        \cup {JDict(d) : d \in Deviations(TemplateValidation(limits, req),
                                          ValidationAlternatives(limits, req))}

Reply(metadata, paper, validation) ==
    [metadata |-> metadata, paper |-> paper, validation |-> validation]

TemplateReply(limits, req) ==
    Reply(JDict(TemplateMetadata(limits, req)), TemplatePaper(limits, req),
          JDict(TemplateValidation(limits, req)))

\* the reply whose sections are all present and all empty
EmptyReply == Reply(JDict(EmptyDict), JList(<<JDict(EmptyDict)>>), JDict(EmptyDict))

\* a question that says nothing but that it has one part
SparseQuestion == JDict([parts |-> JList(<<JDict(EmptyDict)>>)])

\* replies that leave out whatever can be left out: papers of sparse
\* questions under empty metadata and validation, and a question with marks
\* of its own whose part gives only its text
SparseReplies(limits, req) ==
    LET t == TemplateReply(limits, req)
        lone == [q_no |-> JInt(7), marks |-> JInt(5),
                 parts |-> JList(<<JDict([text |-> JStr(GoodText)])>>)]
    IN  {Reply(JDict(EmptyDict), JList([i \in 1..n |-> SparseQuestion]), JDict(EmptyDict)) :
            n \in {1, limits[req.test_type].count}}
            \cup {Reply(t.metadata, JList(<<JDict(lone)>>), t.validation)}

\* the JSON objects the service may reply with: at most one section away from
\* the template, a paper that is no list next to any metadata or validation,
\* the sparse replies, and the template and the empty reply with top-level
\* keys dropped
ObjectReplies(limits, req) ==
    LET t == TemplateReply(limits, req)
    IN  {Reply(m, t.paper, t.validation) : m \in MetadataReplies(limits, req)}
            \cup {Reply(t.metadata, p, t.validation) : p \in PaperReplies(limits, req)}
            \cup {Reply(t.metadata, t.paper, v) : v \in ValidationReplies(limits, req)}
            \cup {Reply(m, JStr("paper"), t.validation) : m \in MetadataReplies(limits, req)}
            \cup {Reply(t.metadata, JStr("paper"), v) : v \in ValidationReplies(limits, req)}
            \cup SparseReplies(limits, req)
            \cup {[k \in keys |-> b[k]] : keys \in SUBSET DOMAIN t, b \in {t, EmptyReply}}

RECURSIVE TokenSeqs(_, _)
TokenSeqs(tokens, n) ==
    IF n = 0 THEN {<<>>}
    ELSE LET shorter == TokenSeqs(tokens, n - 1)
         IN  shorter \cup {Append(s, x) : s \in shorter, x \in tokens}

\* the texts the completion service may return
Replies(limits, req) ==
    {<<JDict(o)>> : o \in ObjectReplies(limits, req)}
        \cup TokenSeqs({OpenBrace, CloseBrace, Prose, Whitespace,
                        JDict(TemplateReply(limits, req))}, MaxRawLen)

TransportErrors == {Err("Connection refused", <<>>, 0, 0), Err("Request timed out", <<>>, 0, 0)}

-----------------------------------------------------------------------------
(* generate_question_paper *)

Response(success, message, paper, processing_time, agent_used) ==
    [success |-> success, message |-> message, question_paper |-> paper,
     processing_time |-> processing_time, agent_used |-> agent_used]

\* a handler that reports a fixed message instead of the error's
HandleException_generic(e, t, started) ==
    [raised |-> FALSE,
     result |-> Response(FALSE, Wrap("Generation failed", NoMessage), NoneObj, t - started, "none")]

\* the except clause of generate_question_paper (lines 58-66)
HandleException(e, t, started) ==
    [raised |-> FALSE,
     result |-> Response(FALSE, Wrap("Generation failed", e), NoneObj, t - started, "none")]

\* the return of the try block (lines 48-56)
ReturnSuccess(paper, t, started) ==
    Response(TRUE, SuccessMessage, paper, t - started, "ollama_question_generator")

\* the except clause of _generate_with_ollama (lines 455-457)
GenerationFailure(e) == Wrap("Question generation failed", Exc(e))

\* the last except clause of _parse_and_validate_response (lines 540-542)
ValidationFailure(m) == Wrap("Response validation failed", m)

system_message == "You are an expert exam question generator. Respond ONLY with valid JSON format."

CompletionCall(p) ==
    [prompt |-> p, system_message |-> system_message, temperature |-> "0.3", max_tokens |-> 4000]

Terminal == {"SUCCESS", "FAILURE"}

Init ==
    /\ pc = "START"
    /\ request \in Requests
    /\ question_limits = QuestionLimits
    /\ now \in 0..MaxStart
    /\ start_time = 0
    /\ all_modules = <<>>
    /\ module_content = NoneObj
    /\ prompt = NoneObj
    /\ calls = 0
    /\ llm_call = NoneObj
    /\ raw_response = <<>>
    /\ parsed_data = NoneObj
    /\ question_paper = NoneObj
    /\ result = NoneObj
    /\ raised = FALSE
    /\ log = <<>>
    /\ trace = <<>>
    /\ fault = NoMessage
    /\ form = NoneObj
    /\ http = NoneObj
    /\ tasks = NoneObj
    /\ hybrid = NoneObj

\* line 36
Start ==
    /\ pc = "START"
    /\ UNCHANGED inbound
    /\ start_time' = now
    /\ pc' = "PARSE_MODULES"
    /\ UNCHANGED <<request, question_limits, now, all_modules, module_content, prompt, calls,
                   llm_call, raw_response, parsed_data, question_paper, result, raised,
                   log, trace, fault>>

\* _extract_module_content, line 202
ParseModules ==
    /\ pc = "PARSE_MODULES"
    /\ UNCHANGED inbound
    /\ all_modules' = _parse_all_modules_from_syllabus(request.syllabus_text)
    /\ pc' = "SELECT_CONTENT"
    /\ trace' = Append(trace, "PARSE_MODULES")
    /\ UNCHANGED <<request, question_limits, now, start_time, module_content, prompt, calls,
                   llm_call, raw_response, parsed_data, question_paper, result, raised, log, fault>>

\* _extract_module_content, lines 206-261
SelectContent ==
    /\ pc = "SELECT_CONTENT"
    /\ UNCHANGED inbound
    /\ module_content' = _extract_module_content(all_modules, request.modules)
    /\ pc' = "COMPOSE_PROMPT"
    /\ trace' = Append(trace, "SELECT_CONTENT")
    /\ UNCHANGED <<request, question_limits, now, start_time, all_modules, prompt, calls,
                   llm_call, raw_response, parsed_data, question_paper, result, raised, log, fault>>

\* a ComposePrompt that gives up when the selector found nothing
ComposePrompt_strict ==
    /\ pc = "COMPOSE_PROMPT"
    /\ UNCHANGED inbound
    /\ IF module_content.kind = "error"
       THEN LET e == Exc(Err("No selected modules found in syllabus", <<>>, 0, 0))
                h == HandleException(e, now, start_time)
            IN  /\ result' = h.result
                /\ raised' = h.raised
                /\ fault' = e
                /\ pc' = "FAILURE"
                /\ trace' = trace \o <<"COMPOSE_PROMPT", "FAILURE">>
                /\ UNCHANGED prompt
       ELSE /\ prompt' = _create_generation_prompt(question_limits, request, module_content)
            /\ pc' = "GENERATE"
            /\ trace' = Append(trace, "COMPOSE_PROMPT")
            /\ UNCHANGED <<result, raised, fault>>
    /\ UNCHANGED <<request, question_limits, now, start_time, all_modules, module_content,
                   calls, llm_call, raw_response, parsed_data, question_paper, log>>

\* _create_generation_prompt, lines 76-155
ComposePrompt ==
    /\ pc = "COMPOSE_PROMPT"
    /\ UNCHANGED inbound
    /\ prompt' = _create_generation_prompt(question_limits, request, module_content)
    /\ pc' = "GENERATE"
    /\ trace' = Append(trace, "COMPOSE_PROMPT")
    /\ UNCHANGED <<request, question_limits, now, start_time, all_modules, module_content,
                   calls, llm_call, raw_response, parsed_data, question_paper, result,
                   raised, log, fault>>

\* _generate_with_ollama up to the await (lines 443-451)
GenerateCall ==
    /\ pc = "GENERATE"
    /\ UNCHANGED inbound
    /\ calls' = calls + 1
    /\ llm_call' = CompletionCall(prompt)
    /\ pc' = "AWAIT"
    /\ trace' = Append(trace, "GENERATE")
    /\ UNCHANGED <<request, question_limits, now, start_time, all_modules, module_content,
                   prompt, raw_response, parsed_data, question_paper, result, raised, log, fault>>

\* the completion service returns a text (line 453)
GenerateReturn ==
    /\ pc = "AWAIT"
    /\ UNCHANGED inbound
    /\ \E raw \in Replies(question_limits, request), d \in 0..MaxLatency :
          /\ now' = now + d
          /\ raw_response' = Strip(raw)
    /\ pc' = "REPAIR"
    /\ UNCHANGED <<request, question_limits, start_time, all_modules, module_content, prompt,
                   calls, llm_call, parsed_data, question_paper, result, raised, log, trace, fault>>

\* the completion service fails (lines 455-457, then 58-66)
GenerateFail ==
    /\ pc = "AWAIT"
    /\ UNCHANGED inbound
    /\ \E e \in TransportErrors, d \in 0..MaxLatency :
          LET h == HandleException(GenerationFailure(e), now + d, start_time)
          IN  /\ now' = now + d
              /\ result' = h.result
              /\ raised' = h.raised
              /\ fault' = Exc(e)
    /\ pc' = "FAILURE"
    /\ trace' = Append(trace, "FAILURE")
    /\ UNCHANGED <<request, question_limits, start_time, all_modules, module_content, prompt,
                   calls, llm_call, raw_response, parsed_data, question_paper, log>>

\* _parse_and_validate_response, lines 462-529
Repair ==
    /\ pc = "REPAIR"
    /\ UNCHANGED inbound
    /\ LET r == ParseResponse(raw_response, question_limits, request)
           h == HandleException(r.exc, now, start_time)
       IN  /\ parsed_data' = ParsedData(raw_response, question_limits, request)
           /\ IF r.ok
              THEN /\ question_paper' = r.value
                   /\ pc' = "VALIDATE"
                   /\ trace' = Append(trace, "REPAIR")
                   /\ UNCHANGED <<result, raised, fault>>
              ELSE /\ result' = h.result
                   /\ raised' = h.raised
                   /\ fault' = Exc(r.exc.err)
                   /\ pc' = "FAILURE"
                   /\ trace' = trace \o <<"REPAIR", "FAILURE">>
                   /\ UNCHANGED question_paper
    /\ UNCHANGED <<request, question_limits, now, start_time, all_modules, module_content,
                   prompt, calls, llm_call, raw_response, log>>

\* a Validate that goes back to the completion service when validation fails
Validate_retry ==
    /\ pc = "VALIDATE"
    /\ UNCHANGED inbound
    /\ LET r == _validate_question_paper(question_paper, question_limits, request)
       IN  IF r.ok
           THEN /\ log' = log \o CoverageWarnings(question_paper, request)
                /\ result' = ReturnSuccess(question_paper, now, start_time)
                /\ pc' = "SUCCESS"
                /\ trace' = trace \o <<"VALIDATE", "SUCCESS">>
           ELSE /\ pc' = "GENERATE"
                /\ trace' = Append(trace, "VALIDATE")
                /\ UNCHANGED <<log, result>>
    /\ UNCHANGED <<request, question_limits, now, start_time, all_modules, module_content,
                   prompt, calls, llm_call, raw_response, parsed_data, question_paper,
                   raised, fault>>

\* _validate_question_paper (line 532), then lines 48-56 or 540-542 and 58-66
Validate ==
    /\ pc = "VALIDATE"
    /\ UNCHANGED inbound
    /\ LET r == _validate_question_paper(question_paper, question_limits, request)
           h == HandleException(ValidationFailure(r.exc), now, start_time)
       IN  IF r.ok
           THEN /\ log' = log \o CoverageWarnings(question_paper, request)
                /\ result' = ReturnSuccess(question_paper, now, start_time)
                /\ pc' = "SUCCESS"
                /\ trace' = trace \o <<"VALIDATE", "SUCCESS">>
                /\ UNCHANGED <<raised, fault>>
           ELSE /\ result' = h.result
                /\ raised' = h.raised
                /\ fault' = r.exc
                /\ pc' = "FAILURE"
                /\ trace' = trace \o <<"VALIDATE", "FAILURE">>
                /\ UNCHANGED log
    /\ UNCHANGED <<request, question_limits, now, start_time, all_modules, module_content,
                   prompt, calls, llm_call, raw_response, parsed_data, question_paper>>

Next ==
    \/ Start
    \/ ParseModules
    \/ SelectContent
    \/ ComposePrompt
    \/ GenerateCall
    \/ GenerateReturn
    \/ GenerateFail
    \/ Repair
    \/ Validate

Spec == Init /\ [][Next]_vars

-----------------------------------------------------------------------------
(* generate_question_paper cancelled by its caller (task.cancel(), or a    *)
(* timeout put around the call).  The only await of the pipeline is the    *)
(* one of line 445, so the CancelledError is thrown there.  It is a       *)
(* BaseException: neither "except Exception" of line 455 nor the one of    *)
(* line 58 catches it.                                                     *)

Cancelled == Exc(Err("CancelledError", <<>>, 0, 0))

\* a cancellation that is caught and answered with whatever text has arrived
Cancel_salvage ==
    /\ pc = "AWAIT"
    /\ UNCHANGED inbound
    /\ fault' = Cancelled
    /\ raw_response' = <<>>
    /\ pc' = "REPAIR"
    /\ UNCHANGED <<request, question_limits, now, start_time, all_modules, module_content,
                   prompt, calls, llm_call, parsed_data, question_paper, result, raised,
                   log, trace>>

\* CancelledError thrown into the await of line 445 leaves
\* _generate_with_ollama and generate_question_paper
Cancel ==
    /\ pc = "AWAIT"
    /\ UNCHANGED inbound
    /\ fault' = Cancelled
    /\ raised' = TRUE
    /\ pc' = "CANCELLED"
    /\ UNCHANGED <<request, question_limits, now, start_time, all_modules, module_content,
                   prompt, calls, llm_call, raw_response, parsed_data, question_paper,
                   result, log, trace>>

InitCancel ==
    /\ Init
    /\ request.test_type = "CAT-1"

NextCancel ==
    \/ Next
    \/ Cancel

SpecCancel == InitCancel /\ [][NextCancel]_vars

-----------------------------------------------------------------------------
(* QuestionGenerationRequest built from arguments, as the tests and the    *)
(* endpoint build it                                                       *)

TemplateSyllabus ==
    << Line("Module 1: LED basics", "module", FALSE, "1", TRUE),
       Text("LED and resistor circuits"),
       Blank,
       Line("Module 2: Timers", "module", FALSE, "2", TRUE),
       Text("Timer and counter modes") >>

ShortSyllabus == << Line("Module 1", "module", FALSE, "1", FALSE) >>

MaxTokens == 3     \* module lists of up to MaxTokens arbitrary labels

BlankToken == Token("", "", "", "", "", TRUE)

\* lists at the upper limit of the modules field
LongLists ==
    {[i \in 1..n |-> IF i = 1 THEN t ELSE Label("1")] :
        n \in {MaxModules, MaxModules + 1}, t \in {Label("1"), BlankToken}}

ConstructorArgs ==
    {[syllabus_text |-> TemplateSyllabus, test_type |-> "CAT-1", modules |-> m] :
        m \in TokenSeqs(ModuleTokens, MaxTokens) \cup LongLists}
    \cup {[syllabus_text |-> s, test_type |-> t, modules |-> <<Label("2")>>] :
            s \in {TemplateSyllabus, ShortSyllabus, <<>>}, t \in TestTypes \cup {"QUIZ"}}

\* what Init says of everything but pc, request, form, now, tasks and hybrid
Fresh ==
    /\ question_limits = QuestionLimits
    /\ start_time = 0
    /\ all_modules = <<>>
    /\ module_content = NoneObj
    /\ prompt = NoneObj
    /\ calls = 0
    /\ llm_call = NoneObj
    /\ raw_response = <<>>
    /\ parsed_data = NoneObj
    /\ question_paper = NoneObj
    /\ result = NoneObj
    /\ raised = FALSE
    /\ log = <<>>
    /\ trace = <<>>
    /\ fault = NoMessage
    /\ http = NoneObj

InitRequest ==
    /\ pc = "CONSTRUCT"
    /\ form \in ConstructorArgs
    /\ request = NoneObj
    /\ now = 0
    /\ Fresh
    /\ tasks = NoneObj
    /\ hybrid = NoneObj

\* QuestionGenerationRequest(...) (app/models/__init__.py, lines 167-201)
Construct ==
    /\ pc = "CONSTRUCT"
    /\ LET r == QuestionGenerationRequest(form.syllabus_text, form.test_type, form.modules)
       IN  /\ request' = r.value
           /\ fault' = r.exc
           /\ pc' = IF r.ok THEN "CONSTRUCTED" ELSE "REJECTED"
    /\ UNCHANGED <<question_limits, now, start_time, all_modules, module_content, prompt,
                   calls, llm_call, raw_response, parsed_data, question_paper, result,
                   raised, log, trace, form, http, tasks, hybrid>>

NextRequest == Construct

SpecRequest == InitRequest /\ [][NextRequest]_vars

-----------------------------------------------------------------------------
(* generate_question_paper up to its call of the completion service, over  *)
(* the syllabi that can be written with a few kinds of line                *)

MaxLines == 4      \* syllabi of up to MaxLines lines

SyllabusLines ==
    { Line("Module 1: LED basics", "module", FALSE, "1", TRUE),
      Line("Module 2: Timers", "module", FALSE, "2", TRUE),
      Line("Module 03: Interrupts", "module", FALSE, "03", TRUE),
      Line("1. Overview of ports", "none", FALSE, "1", TRUE),
      Line("3 credits per week", "none", FALSE, "3", FALSE),
      Text("LED and resistor circuits"),
      Blank }

SelectorLists ==
    { <<"Module 1">>, <<"Module 2", "Module 1">>, <<"Module 3">>,
      <<"Module 9", "Module 1">>, <<"Module 2", "Module 2">> }

SyllabusRequests ==
    {r \in [syllabus_text : TokenSeqs(SyllabusLines, MaxLines), test_type : {"CAT-2"},
            modules : SelectorLists] : Chars(r.syllabus_text) >= MinSyllabusLength}

InitSyllabus ==
    /\ pc = "START"
    /\ request \in SyllabusRequests
    /\ form = NoneObj
    /\ now = 0
    /\ Fresh
    /\ tasks = NoneObj
    /\ hybrid = NoneObj

NextSyllabus ==
    \/ Start
    \/ ParseModules
    \/ SelectContent
    \/ ComposePrompt
    \/ GenerateCall

SpecSyllabus == InitSyllabus /\ [][NextSyllabus]_vars

-----------------------------------------------------------------------------
(* _parse_all_modules_from_syllabus over syllabi whose headers are written *)
(* in every form of module_patterns (lines 286-292), several of them with  *)
(* the same digits                                                         *)

HeaderLines ==
    { Line("Module 1: LED basics", "module", FALSE, "1", TRUE),
      Line("Chapter 1 - Ports", "chapter", FALSE, "1", TRUE),
      Line("Unit 2. Counters", "unit", FALSE, "2", TRUE),
      Line("01. Overview", "none", FALSE, "01", TRUE),
      Line("Chapter: 3 Serial links", "chapter", TRUE, "3", FALSE),
      Text("LED and resistor circuits"),
      Blank }

HeaderRequests ==
    {r \in [syllabus_text : TokenSeqs(HeaderLines, MaxLines), test_type : {"FAT"},
            modules : {<<"Module 1">>}] : Chars(r.syllabus_text) >= MinSyllabusLength}

InitHeaders ==
    /\ pc = "START"
    /\ request \in HeaderRequests
    /\ form = NoneObj
    /\ now = 0
    /\ tasks = NoneObj
    /\ hybrid = NoneObj
    /\ Fresh

NextHeaders ==
    \/ Start
    \/ ParseModules

SpecHeaders == InitHeaders /\ [][NextHeaders]_vars

-----------------------------------------------------------------------------
(* POST /generate-question-paper with the syllabus given as text           *)
(* (app/routers/academic_router.py, lines 375-450)                         *)

HTTPException(status_code, detail) == [status_code |-> status_code, detail |-> detail]

Detail(text) == Exc(Err(text, <<>>, 0, 0))

\* syllabus_text.strip(), on the lines of the text
RECURSIVE StripLines(_)
StripLines(lines) ==
    IF lines # <<>> /\ lines[1].raw = "" THEN StripLines(Tail(lines))
    ELSE IF lines # <<>> /\ lines[Len(lines)].raw = ""
    THEN StripLines(SubSeq(lines, 1, Len(lines) - 1))
    ELSE lines

\* [m.strip() for m in modules.split(',') if m.strip()]
SplitModules(modules) ==
    SelectSeq([i \in DOMAIN modules |-> StripToken(modules[i])], LAMBDA t : Render(t) # "")

\* the comma-separated texts of the modules field
FormModules ==
    { <<Label("1")>>,
      <<Token("", "MODULE", "  ", "2", "", TRUE), Token("", "", "", "1", "", FALSE)>>,
      <<Token("", "", "", "1", "", FALSE), BlankToken, Label("1")>>,
      <<BlankToken>>,
      <<Label("11")>>,
      <<Label("1"), Token("Intro", "", "", "", "", FALSE)>>,
      <<Token("", "MODULE", "-", "3", "", FALSE)>> }

Forms ==
    [syllabus_text : {TemplateSyllabus, <<Blank>> \o TemplateSyllabus, ShortSyllabus,
                      <<Blank>>, <<>>},
     test_type : {"CAT-1", "FAT", "QUIZ"},
     modules : FormModules]

InitEndpoint ==
    /\ pc = "ENDPOINT"
    /\ form \in Forms
    /\ request = NoneObj
    /\ now \in 0..MaxStart
    /\ Fresh
    /\ tasks = NoneObj
    /\ hybrid = NoneObj

\* the handler up to its await (lines 388-438)
EndpointReceive ==
    /\ pc = "ENDPOINT"
    /\ LET syllabus_content == StripLines(form.syllabus_text)
           modules_list == SplitModules(form.modules)
           r == QuestionGenerationRequest(syllabus_content, form.test_type, modules_list)
           refused ==
               IF form.syllabus_text = <<>>
               THEN HTTPException(400, Detail("Either 'file' or 'syllabus_text' must be provided."))
               ELSE IF syllabus_content = <<>> \/ Chars(syllabus_content) < 10
               THEN HTTPException(422, Detail("Invalid syllabus content."))
               ELSE IF form.test_type \notin {"CAT-1", "CAT-2", "FAT"}
               THEN HTTPException(400, Detail("Invalid test type."))
               ELSE IF modules_list = <<>>
               THEN HTTPException(400, Detail("At least one module must be selected."))
               ELSE IF ~r.ok
               THEN HTTPException(500, Wrap("Processing failed", r.exc))
               ELSE NoneObj
       IN  IF refused = NoneObj
           THEN /\ request' = r.value
                /\ pc' = "START"
                /\ UNCHANGED http
           ELSE /\ http' = refused
                /\ pc' = "RESPONDED"
                /\ UNCHANGED request
    /\ UNCHANGED <<question_limits, now, start_time, all_modules, module_content, prompt,
                   calls, llm_call, raw_response, parsed_data, question_paper, result,
                   raised, log, trace, fault, form, tasks, hybrid>>

\* the handler after generate_question_paper returned (lines 440-444)
EndpointRespond ==
    /\ pc \in Terminal
    /\ form # NoneObj
    /\ http' = IF result.success THEN HTTPException(200, NoMessage)
               ELSE HTTPException(500, result.message)
    /\ pc' = "RESPONDED"
    /\ UNCHANGED <<request, question_limits, now, start_time, all_modules, module_content,
                   prompt, calls, llm_call, raw_response, parsed_data, question_paper,
                   result, raised, log, trace, fault, form, tasks, hybrid>>

NextEndpoint ==
    \/ EndpointReceive
    \/ EndpointRespond
    \/ Next

SpecEndpoint == InitEndpoint /\ [][NextEndpoint]_vars

-----------------------------------------------------------------------------
(* Several calls of generate_question_paper in flight on the one           *)
(* question_generator of line 582.  A coroutine runs without interruption  *)
(* from one await to the next, and the only await is the completion call   *)
(* of line 445: a call runs from its entry to that await in one step, and  *)
(* from the reply to its return in another.  question_limits, the clock   *)
(* and the log belong to the process; everything else is local to a call.  *)
(* The calls are followed at one reading of the clock.                     *)

MaxTasks == 2      \* calls in flight at the same time

TaskIds == 1..MaxTasks

TaskRequests ==
    {r \in Requests :
        /\ r.syllabus_text = TemplateSyllabus
        /\ \/ r.modules = <<"Module 1">> /\ r.test_type \in {"CAT-1", "FAT"}
           \/ r.modules = <<"Module 2", "Module 1">> /\ r.test_type = "CAT-1"}

\* the texts the completion service answers a call with: the paper asked
\* for, a paper one question short, a paper on another module, and prose
TaskReplies(req) ==
    LET t == TemplateReply(QuestionLimits, req)
        n == QuestionLimits[req.test_type].count
        each == QuestionLimits[req.test_type].marks_each
    IN  { <<JDict(t)>>,
          <<JDict(Reply(t.metadata,
                        JList(UniformPaper(QuestionLimits, req, n - 1, each, <<req.modules[1]>>)),
                        t.validation))>>,
          <<JDict(Reply(t.metadata,
                        JList(UniformPaper(QuestionLimits, req, n, each, <<OtherModule>>)),
                        t.validation))>>,
          <<Prose>> }

NewTask(req) ==
    [pc |-> "START", request |-> req, start_time |-> 0, prompt |-> NoneObj,
     response |-> NoneObj, result |-> NoneObj]

\* lines 36-41: the prompt of a request
TaskPrompt(limits, req) ==
    _create_generation_prompt(limits, req,
        _extract_module_content(_parse_all_modules_from_syllabus(req.syllabus_text),
                                req.modules))

\* lines 453, 46-56 and 58-66: the response to a request whose completion
\* call has returned a text or raised
TaskResult(response, limits, req, t, started) ==
    IF ~response.ok
    THEN HandleException(GenerationFailure(response.exc.err), t, started).result
    ELSE LET r == ParseResponse(Strip(response.value), limits, req)
             v == _validate_question_paper(r.value, limits, req)
         IN  IF ~r.ok THEN HandleException(r.exc, t, started).result
             ELSE IF ~v.ok THEN HandleException(ValidationFailure(v.exc), t, started).result
             ELSE ReturnSuccess(r.value, t, started)

\* line 571: the warnings logged on the way
TaskWarnings(response, limits, req) ==
    IF ~response.ok THEN <<>>
    ELSE LET r == ParseResponse(Strip(response.value), limits, req)
         IN  IF r.ok /\ _validate_question_paper(r.value, limits, req).ok
             THEN CoverageWarnings(r.value, req)
             ELSE <<>>

pipeline == <<pc, request, start_time, all_modules, module_content, prompt, raw_response,
              parsed_data, question_paper, result, raised, trace, fault, form, http, hybrid>>

InitConcurrent ==
    /\ pc = "SERVING"
    /\ request = NoneObj
    /\ form = NoneObj
    /\ now = 0
    /\ Fresh
    /\ hybrid = NoneObj
    /\ tasks \in [TaskIds -> {NewTask(r) : r \in TaskRequests}]

\* a call that adjusts the profile it reads to the request at hand
TaskStart_tune(i) ==
    /\ tasks[i].pc = "START"
    /\ tasks' = [tasks EXCEPT ![i].pc = "AWAIT",
                              ![i].start_time = now,
                              ![i].prompt = TaskPrompt(question_limits, tasks[i].request)]
    /\ calls' = calls + 1
    /\ llm_call' = CompletionCall(TaskPrompt(question_limits, tasks[i].request))
    /\ question_limits' =
          [question_limits EXCEPT ![tasks[i].request.test_type].count =
                                      Len(tasks[i].request.modules)]
    /\ UNCHANGED <<now, log>>
    /\ UNCHANGED pipeline

\* generate_question_paper from its entry to the await (lines 36-41, 443-451)
TaskStart(i) ==
    /\ tasks[i].pc = "START"
    /\ tasks' = [tasks EXCEPT ![i].pc = "AWAIT",
                              ![i].start_time = now,
                              ![i].prompt = TaskPrompt(question_limits, tasks[i].request)]
    /\ calls' = calls + 1
    /\ llm_call' = CompletionCall(TaskPrompt(question_limits, tasks[i].request))
    /\ UNCHANGED <<question_limits, now, log>>
    /\ UNCHANGED pipeline

\* generate_question_paper from the reply to its return (lines 453, 46-56, 58-66)
TaskReturn(i) ==
    /\ tasks[i].pc = "AWAIT"
    /\ \E raw \in TaskReplies(tasks[i].request) :
          LET req == tasks[i].request
          IN  /\ tasks' = [tasks EXCEPT
                              ![i].pc = "DONE",
                              ![i].response = Ok(raw),
                              ![i].result = TaskResult(Ok(raw), question_limits, req,
                                                       now, tasks[i].start_time)]
              /\ log' = log \o TaskWarnings(Ok(raw), question_limits, req)
    /\ UNCHANGED <<question_limits, now, calls, llm_call>>
    /\ UNCHANGED pipeline

\* the completion call raises (lines 455-457, then 58-66)
TaskFail(i) ==
    /\ tasks[i].pc = "AWAIT"
    /\ \E e \in TransportErrors :
          /\ tasks' = [tasks EXCEPT
                          ![i].pc = "DONE",
                          ![i].response = Raise(Exc(e)),
                          ![i].result = TaskResult(Raise(Exc(e)), question_limits,
                                                   tasks[i].request, now,
                                                   tasks[i].start_time)]
    /\ UNCHANGED <<question_limits, now, calls, llm_call, log>>
    /\ UNCHANGED pipeline

NextConcurrent ==
    \E i \in TaskIds :
        \/ TaskStart(i)
        \/ TaskReturn(i)
        \/ TaskFail(i)

SpecConcurrent == InitConcurrent /\ [][NextConcurrent]_vars

-----------------------------------------------------------------------------
(* generate_question_paper over replies that are complete papers whose     *)
(* questions carry marks of every kind: the first questions have the       *)
(* profile's marks, the last MaxFree any marks around the limits of the    *)
(* typed Question                                                          *)

MaxFree == 4       \* the questions of a reply whose marks vary

MarkValues == {1, 9, 10, 11}

RECURSIVE MarkVectors(_, _, _)
MarkVectors(n, free, each) ==
    IF n = 0 THEN {<<>>}
    ELSE {Append(v, m) : v \in MarkVectors(n - 1, free - 1, each),
                         m \in IF free > 0 THEN MarkValues ELSE {each}}

MarkReplies(limits, req) ==
    LET t == TemplateReply(limits, req)
        each == limits[req.test_type].marks_each
        paper(v) == JList([i \in DOMAIN v |->
                              JDict(TemplateQuestion(limits, req, i, v[i], <<req.modules[1]>>))])
    IN  UNION { {<<JDict(Reply(t.metadata, paper(v), t.validation))>> :
                    v \in MarkVectors(n, MaxFree, each)} :
                n \in PaperLengths(limits, req) \ {0, 1} }

MarkRequests ==
    {r \in Requests : r.syllabus_text = TemplateSyllabus /\ r.modules = <<"Module 1">>}

InitMarks ==
    /\ pc = "START"
    /\ request \in MarkRequests
    /\ form = NoneObj
    /\ now = 0
    /\ tasks = NoneObj
    /\ hybrid = NoneObj
    /\ Fresh

\* the completion service returns a text (line 453)
MarksReturn ==
    /\ pc = "AWAIT"
    /\ UNCHANGED inbound
    /\ \E raw \in MarkReplies(question_limits, request) :
          raw_response' = Strip(raw)
    /\ pc' = "REPAIR"
    /\ UNCHANGED <<request, question_limits, now, start_time, all_modules, module_content,
                   prompt, calls, llm_call, parsed_data, question_paper, result, raised, log,
                   trace, fault>>

NextMarks ==
    \/ Start
    \/ ParseModules
    \/ SelectContent
    \/ ComposePrompt
    \/ GenerateCall
    \/ MarksReturn
    \/ Repair
    \/ Validate

SpecMarks == InitMarks /\ [][NextMarks]_vars

-----------------------------------------------------------------------------
(* HybridClient.generate_completion (app/utils/hybrid_llm_client.py,       *)
(* lines 86-113) over two OpenAIClient instances                           *)
(* (app/utils/openai_client.py, lines 22-60).  hybrid holds the arguments  *)
(* of the call, the calls made on each client, what each client did, and   *)
(* what the call returned or raised.                                       *)

\* settings.openrouter_model and settings.ollama_model
OpenRouterModel == "openrouter_model"
OllamaModel == "ollama_model"

HybridArgs ==
    [prompt : {"Generate a question paper", "Summarise the notes"},
     system_message : {None, "", system_message},
     temperature : {"0.7", "0.3"},
     max_tokens : {1000, 4000}]

\* what chat.completions.create does: a message content, no content, or an error
SdkContents == {<<Prose>>, <<Whitespace, Prose, Whitespace>>, <<>>}
SdkErrors == {Err("Connection error", <<>>, 0, 0), Err("Rate limit exceeded", <<>>, 0, 0)}
NoContent == Err("'NoneType' object has no attribute 'strip'", <<>>, 0, 0)
SdkReturns == {Ok(c) : c \in SdkContents}
SdkRaises == {Raise(Exc(e)) : e \in SdkErrors \cup {NoContent}}

\* the request OpenAIClient.generate_completion sends (lines 31, 40-52)
ChatRequest(default_model, prompt_, model, max_tokens, temperature, system_message_) ==
    [model |-> IF model = None THEN default_model ELSE model,
     messages |-> (IF system_message_ \notin {None, ""}
                   THEN <<[role |-> "system", content |-> system_message_]>>
                   ELSE <<>>)
                  \o <<[role |-> "user", content |-> prompt_]>>,
     max_tokens |-> max_tokens,
     temperature |-> temperature]

\* what OpenAIClient.generate_completion makes of the outcome (lines 55-60)
ClientOutcome(sdk) ==
    IF sdk.ok THEN Ok(Strip(sdk.value))
    ELSE Raise(Wrap("OpenAI API error", sdk.exc))

NewHybridCall(args) ==
    [pc |-> "CALL", args |-> args, openrouter |-> <<>>, ollama |-> <<>>,
     primary |-> NoneObj, secondary |-> NoneObj, outcome |-> NoneObj, events |-> <<>>]

\* every variable but hybrid
generator == <<pc, request, question_limits, now, start_time, all_modules, module_content,
               prompt, calls, llm_call, raw_response, parsed_data, question_paper, result,
               raised, log, trace, fault, form, http, tasks>>

InitHybrid ==
    /\ pc = "CLIENT"
    /\ request = NoneObj
    /\ form = NoneObj
    /\ now = 0
    /\ tasks = NoneObj
    /\ Fresh
    /\ hybrid \in {NewHybridCall(a) : a \in HybridArgs}

\* lines 92-100, up to the await
HybridCall ==
    /\ hybrid.pc = "CALL"
    /\ hybrid' = [hybrid EXCEPT
                     !.pc = "AWAIT_OPENROUTER",
                     !.openrouter = Append(@, ChatRequest(OpenRouterModel, hybrid.args.prompt,
                                                          None, hybrid.args.max_tokens,
                                                          hybrid.args.temperature,
                                                          hybrid.args.system_message)),
                     !.events = Append(@, "openrouter.call")]
    /\ UNCHANGED generator

\* line 94 returns
OpenRouterReturn ==
    /\ hybrid.pc = "AWAIT_OPENROUTER"
    /\ \E sdk \in SdkReturns :
          /\ ClientOutcome(sdk).ok
          /\ hybrid' = [hybrid EXCEPT
                           !.pc = "RETURNED",
                           !.primary = ClientOutcome(sdk),
                           !.outcome = ClientOutcome(sdk),
                           !.events = Append(@, "openrouter.return")]
    /\ UNCHANGED generator

\* line 94 raises: lines 101-110, up to the await
OpenRouterRaise ==
    /\ hybrid.pc = "AWAIT_OPENROUTER"
    /\ \E sdk \in SdkRaises :
          /\ ~ClientOutcome(sdk).ok
          /\ hybrid' = [hybrid EXCEPT
                           !.pc = "AWAIT_OLLAMA",
                           !.primary = ClientOutcome(sdk),
                           !.ollama = Append(@, ChatRequest(OllamaModel, hybrid.args.prompt,
                                                            None, hybrid.args.max_tokens,
                                                            hybrid.args.temperature,
                                                            hybrid.args.system_message)),
                           !.events = @ \o <<"openrouter.raise", "ollama.call">>]
    /\ UNCHANGED generator

\* line 105 returns
OllamaReturn ==
    /\ hybrid.pc = "AWAIT_OLLAMA"
    /\ \E sdk \in SdkReturns :
          /\ ClientOutcome(sdk).ok
          /\ hybrid' = [hybrid EXCEPT
                           !.pc = "RETURNED",
                           !.secondary = ClientOutcome(sdk),
                           !.outcome = ClientOutcome(sdk),
                           !.events = Append(@, "ollama.return")]
    /\ UNCHANGED generator

\* a handler that reports the error of the primary client
OllamaRaise_primary ==
    /\ hybrid.pc = "AWAIT_OLLAMA"
    /\ \E sdk \in SdkRaises :
          /\ ~ClientOutcome(sdk).ok
          /\ hybrid' = [hybrid EXCEPT
                           !.pc = "RAISED",
                           !.secondary = ClientOutcome(sdk),
                           !.outcome = hybrid.primary,
                           !.events = Append(@, "ollama.raise")]
    /\ UNCHANGED generator

\* line 105 raises: lines 111-113
OllamaRaise ==
    /\ hybrid.pc = "AWAIT_OLLAMA"
    /\ \E sdk \in SdkRaises :
          /\ ~ClientOutcome(sdk).ok
          /\ hybrid' = [hybrid EXCEPT
                           !.pc = "RAISED",
                           !.secondary = ClientOutcome(sdk),
                           !.outcome = ClientOutcome(sdk),
                           !.events = Append(@, "ollama.raise")]
    /\ UNCHANGED generator

\* the caller cancels at either await: CancelledError is no Exception, and
\* passes lines 57, 101 and 111
HybridCancel ==
    /\ hybrid.pc \in {"AWAIT_OPENROUTER", "AWAIT_OLLAMA"}
    /\ hybrid' = [hybrid EXCEPT
                     !.pc = "RAISED",
                     !.outcome = Raise(Cancelled),
                     !.events = Append(@, "cancel")]
    /\ UNCHANGED generator

NextHybrid ==
    \/ HybridCall
    \/ OpenRouterReturn
    \/ OpenRouterRaise
    \/ OllamaReturn
    \/ OllamaRaise
    \/ HybridCancel

SpecHybrid == InitHybrid /\ [][NextHybrid]_vars

-----------------------------------------------------------------------------
(* Properties *)

StageOrder ==
    <<"PARSE_MODULES", "SELECT_CONTENT", "COMPOSE_PROMPT", "GENERATE", "REPAIR", "VALIDATE">>

Prefix(s, n) == SubSeq(s, 1, n)

Executed(stage) == \E i \in DOMAIN trace : trace[i] = stage

Profile == question_limits[request.test_type]

\* the typed paper deviates from the profile in count, in some question's marks or in total
Deviates(paper) ==
    \/ Len(paper.paper) # Profile.count
    \/ \E i \in DOMAIN paper.paper : paper.paper[i].marks # Profile.marks_each
    \/ SumMarks(paper.paper) # Profile.total

\* C1: whenever a stage has failed, the call has returned a result with
\* success=false, no question paper, a message that contains the message of the
\* error that started the failure, and the elapsed time; nothing is raised to
\* the caller.
C1_FailureIsStructured ==
    /\ raised = FALSE
    /\ fault # NoMessage =>
          /\ pc = "FAILURE"
          /\ result.success = FALSE
          /\ result.question_paper = NoneObj
          /\ Contains(result.message, fault)
          /\ result.processing_time = now - start_time

C1_Witness ==
    /\ pc = "FAILURE"
    /\ fault.err.kind = "ValidationError"
    /\ result.processing_time > 0

\* C2: the stages run only in the order parse, select, compose, generate,
\* repair, validate; a failure ends the request at once; the completion service
\* is called at most once; SUCCESS and FAILURE have no successor and carry the
\* elapsed time.
C2_StageOrder ==
    [][/\ pc \notin Terminal
       /\ calls' <= 1
       /\ \E n \in 0..Len(StageOrder) :
             \/ trace' = Prefix(StageOrder, n)
             \/ n >= 4 /\ trace' = Append(Prefix(StageOrder, n), "FAILURE")
             \/ trace' = Append(StageOrder, "SUCCESS")
       /\ pc' \in Terminal =>
             /\ trace'[Len(trace')] = pc'
             /\ result'.processing_time = now' - start_time']_vars

C2_Witness ==
    /\ pc = "FAILURE"
    /\ calls = 1
    /\ trace = Append(Prefix(StageOrder, 5), "FAILURE")

\* C3: once a typed paper has been validated, validation has raised if and only
\* if the paper deviates from the profile in question count, in some question's
\* marks or in total marks.
C3_ValidatorRaisesIffDeviates ==
    (pc \in Terminal /\ question_paper # NoneObj) =>
        /\ (pc = "FAILURE") <=> Deviates(question_paper)
        /\ pc = "FAILURE" =>
              fault.err.kind \in {"Expected questions, got", "Expected total marks, got",
                                  "Question has marks, expected"}

\* a paper of four 10-mark questions under {count 5, marks 10, total 50} raises
C3_Witness ==
    /\ pc = "FAILURE"
    /\ question_paper # NoneObj
    /\ request.test_type = "CAT-1"
    /\ Len(question_paper.paper) = 4
    /\ \A i \in DOMAIN question_paper.paper : question_paper.paper[i].marks = 10

Opens == {i \in DOMAIN raw_response : raw_response[i].t \in {"{", "dict"}}
Closes == {i \in DOMAIN raw_response : raw_response[i].t \in {"}", "dict"}}
Inner ==
    {i \in DOMAIN raw_response :
        /\ raw_response[i].t # "ws"
        /\ \E o \in Opens : (\A o2 \in Opens : o <= o2) /\ o <= i
        /\ \E c \in Closes : (\A c2 \in Closes : c >= c2) /\ i <= c}

\* the slice is a JSON object: one rendered object, or a brace pair
SliceIsObject ==
    \/ Cardinality(Inner) = 1 /\ \A i \in Inner : raw_response[i].t = "dict"
    \/ /\ Cardinality(Inner) = 2
       /\ \E i, j \in Inner : i < j /\ raw_response[i].t = "{" /\ raw_response[j].t = "}"

SliceObject ==
    IF \E i \in Inner : raw_response[i].t = "dict"
    THEN raw_response[CHOOSE i \in Inner : raw_response[i].t = "dict"].v
    ELSE EmptyDict

RequiredKeys == {"metadata", "paper", "validation"}

\* the reply holds a JSON object with the three top-level keys
MinimalShape ==
    /\ Executed("REPAIR")
    /\ SliceIsObject
    /\ RequiredKeys \subseteq DOMAIN SliceObject

HasKeys(j, keys) == IsDict(j) /\ keys \subseteq DOMAIN j.v

MetadataFilled(pd) ==
    /\ HasKeys(pd["metadata"], {"title", "test_type", "modules", "total_marks", "notes"})
    /\ HasKeys(pd["validation"], {"total_marks_check", "unique_questions"})

QuestionsFilled(pd) ==
    \A i \in DOMAIN pd["paper"].v :
        LET q == pd["paper"].v[i]
        IN  IsDict(q) =>
               /\ HasKeys(q, {"q_no", "marks", "parts"})
               /\ IsList(q.v["parts"])
               /\ \A k \in DOMAIN q.v["parts"].v :
                     IsDict(q.v["parts"].v[k]) =>
                         HasKeys(q.v["parts"].v[k], {"label", "marks", "text", "module"})

\* C6 as stated: over the minimal shape repair does not fail and every field
\* enumerated for defaulting is filled
C6_RepairTotal ==
    MinimalShape =>
        /\ question_paper # NoneObj
        /\ MetadataFilled(parsed_data)
        /\ IsList(parsed_data["paper"]) => QuestionsFilled(parsed_data)

\* C6, amended: over the minimal shape the defaulting step does not fail, and
\* when the paper value is a list it fills every enumerated field of the
\* metadata, of the validation, of each question that is an object and of each
\* part that is an object; repair can then fail only in typed construction.
C6_DefaultingTotal ==
    MinimalShape =>
        /\ parsed_data # NoneObj
        /\ IsList(parsed_data["paper"]) =>
              MetadataFilled(parsed_data) /\ QuestionsFilled(parsed_data)
        /\ question_paper = NoneObj =>
              pc = "FAILURE" /\ fault.err.kind = "ValidationError"

\* a question without parts is given an empty parts list, which the typed
\* Question rejects
C6_Witness ==
    /\ MinimalShape
    /\ pc = "FAILURE"
    /\ question_paper = NoneObj
    /\ IsList(parsed_data["paper"])
    /\ \E i \in DOMAIN SliceObject["paper"].v :
          /\ IsDict(SliceObject["paper"].v[i])
          /\ "parts" \notin DOMAIN SliceObject["paper"].v[i].v
          /\ parsed_data["paper"].v[i].v["parts"] = JList(<<>>)

\* C7: when the parsed object lacks a required top-level key, repair fails with
\* the missing-fields error naming exactly the missing keys, and nothing has
\* been defaulted, constructed or validated.
C7_MissingKeysNamed ==
    (Executed("REPAIR") /\ SliceIsObject /\ ~(RequiredKeys \subseteq DOMAIN SliceObject)) =>
        /\ pc = "FAILURE"
        /\ fault.err.kind = "Missing required top-level fields"
        /\ {fault.err.names[i] : i \in DOMAIN fault.err.names}
              = RequiredKeys \ DOMAIN SliceObject
        /\ Len(fault.err.names) = Cardinality(RequiredKeys \ DOMAIN SliceObject)
        /\ Contains(result.message, fault)
        /\ parsed_data = SliceObject
        /\ question_paper = NoneObj
        /\ ~Executed("VALIDATE")

C7_Witness ==
    /\ pc = "FAILURE"
    /\ fault.err.names = <<"paper", "validation">>
    /\ parsed_data = [metadata |-> JDict(EmptyDict)]

ParseErrorKinds == {"No valid JSON found in response", "JSONDecodeError"}

\* C8: repair fails with a parse error exactly when the reply has no opening
\* brace, no closing brace, or the slice from the first opening to the last
\* closing brace is no JSON object; no paper is then constructed.
C8_ParseErrorOnBadSlice ==
    Executed("REPAIR") =>
        /\ ~SliceIsObject <=> (pc = "FAILURE" /\ fault.err.kind \in ParseErrorKinds)
        /\ ~SliceIsObject =>
              /\ question_paper = NoneObj
              /\ parsed_data = NoneObj
              /\ result.success = FALSE
              /\ result.question_paper = NoneObj
        /\ (Opens = {} \/ Closes = {}) => fault.err.kind = "No valid JSON found in response"

\* the last closing brace precedes the first opening brace
C8_Witness ==
    /\ pc = "FAILURE"
    /\ raw_response = <<CloseBrace, OpenBrace>>
    /\ fault.err.kind = "JSONDecodeError"

\* C9: a typed paper whose question count differs from the profile's ends in
\* success=false without a paper, and the message states the expected and the
\* actual count.
C9_CountMismatchReported ==
    (pc \in Terminal /\ question_paper # NoneObj
        /\ Len(question_paper.paper) # Profile.count) =>
        /\ result.success = FALSE
        /\ result.question_paper = NoneObj
        /\ result.message.err.kind = "Expected questions, got"
        /\ result.message.err.a = Profile.count
        /\ result.message.err.b = Len(question_paper.paper)

C9_Witness ==
    /\ pc = "FAILURE"
    /\ request.test_type = "CAT-1"
    /\ question_paper # NoneObj
    /\ Len(question_paper.paper) = 4
    /\ result.message.err.a = 5
    /\ result.message.err.b = 4

NullOrStr(d, k) == k \in DOMAIN d /\ d[k].t \in {"null", "str"}
IntIn(d, k, lo, hi) == k \in DOMAIN d /\ d[k].t = "int" /\ d[k].v >= lo /\ d[k].v <= hi
StrMin(d, k, n) == k \in DOMAIN d /\ d[k].t = "str" /\ Len(d[k].v) >= n
StrsIn(d, k, allowed) ==
    /\ k \in DOMAIN d /\ d[k].t = "list" /\ d[k].v # <<>>
    /\ \A x \in DOMAIN d[k].v : d[k].v[x].t = "str" /\ d[k].v[x].v \in allowed

CompletePart(p) ==
    /\ IsDict(p)
    /\ NullOrStr(p.v, "label")
    /\ IntIn(p.v, "marks", 1, 10)
    /\ StrMin(p.v, "text", 10)
    /\ StrsIn(p.v, "module", RequestedModules(request))

CompleteQuestion(q) ==
    /\ IsDict(q)
    /\ IntIn(q.v, "q_no", 1, q.v["q_no"].v)
    /\ IntIn(q.v, "marks", Profile.marks_each, Profile.marks_each)
    /\ NullOrStr(q.v, "instructions")
    /\ "parts" \in DOMAIN q.v /\ IsList(q.v["parts"]) /\ q.v["parts"].v # <<>>
    /\ \A k \in DOMAIN q.v["parts"].v : CompletePart(q.v["parts"].v[k])

\* the reply is a complete, correctly shaped paper with the profile's count and
\* marks, tagged with requested modules only
CompleteReply(o) ==
    /\ DOMAIN o = RequiredKeys
    /\ IsDict(o["metadata"])
    /\ StrMin(o["metadata"].v, "title", 1)
    /\ "test_type" \in DOMAIN o["metadata"].v
    /\ o["metadata"].v["test_type"] \in {JStr(tt) : tt \in TestTypes}
    /\ "modules" \in DOMAIN o["metadata"].v
    /\ IsList(o["metadata"].v["modules"]) /\ o["metadata"].v["modules"].v # <<>>
    /\ \A x \in DOMAIN o["metadata"].v["modules"].v : o["metadata"].v["modules"].v[x].t = "str"
    /\ IntIn(o["metadata"].v, "total_marks", 1, o["metadata"].v["total_marks"].v)
    /\ NullOrStr(o["metadata"].v, "notes")
    /\ IsDict(o["validation"])
    /\ "total_marks_check" \in DOMAIN o["validation"].v
    /\ o["validation"].v["total_marks_check"].t = "int"
    /\ "unique_questions" \in DOMAIN o["validation"].v
    /\ o["validation"].v["unique_questions"].t = "bool"
    /\ IsList(o["paper"])
    /\ Len(o["paper"].v) = Profile.count
    /\ \A i \in DOMAIN o["paper"].v : CompleteQuestion(o["paper"].v[i])

\* the typed question holds what the reply's question holds
SameQuestion(typed, q) ==
    /\ typed.q_no = q.v["q_no"].v
    /\ typed.marks = q.v["marks"].v
    /\ typed.instructions = q.v["instructions"]
    /\ Len(typed.parts) = Len(q.v["parts"].v)
    /\ \A k \in DOMAIN typed.parts :
          /\ typed.parts[k].label = q.v["parts"].v[k].v["label"]
          /\ typed.parts[k].marks = q.v["parts"].v[k].v["marks"].v
          /\ typed.parts[k].text = q.v["parts"].v[k].v["text"].v
          /\ Len(typed.parts[k].module) = Len(q.v["parts"].v[k].v["module"].v)
          /\ \A x \in DOMAIN typed.parts[k].module :
                typed.parts[k].module[x] = q.v["parts"].v[k].v["module"].v[x].v

\* C10: when the reply is a complete, correctly shaped paper with the profile's
\* count and marks and requested tags only, the request ends in success=true
\* with a paper holding those questions, and no coverage warning is logged.
C10_CompleteReplySucceeds ==
    (pc \in Terminal /\ Executed("REPAIR") /\ SliceIsObject /\ CompleteReply(SliceObject)) =>
        /\ pc = "SUCCESS"
        /\ result.success = TRUE
        /\ result.question_paper # NoneObj
        /\ Len(result.question_paper.paper) = Len(SliceObject["paper"].v)
        /\ \A i \in DOMAIN result.question_paper.paper :
              SameQuestion(result.question_paper.paper[i], SliceObject["paper"].v[i])
        /\ log = <<>>
        /\ fault = NoMessage

\* prose in front of the JSON object, a question numbered out of position
C10_Witness ==
    /\ pc = "SUCCESS"
    /\ Len(raw_response) = 2
    /\ raw_response[1] = Prose
    /\ CompleteReply(SliceObject)
    /\ log = <<>>

-----------------------------------------------------------------------------
(* The labels a syllabus has a header for: the lines that carry a number   *)
(* behind a keyword, or a number followed by a separator                   *)

IsHeader(l) ==
    /\ l.raw # ""
    /\ l.digits # ""
    /\ \/ l.kw = "module"
       \/ l.kw \in {"chapter", "unit"} /\ ~l.presep
       \/ l.kw = "none" /\ l.postsep

HeaderLabel(l) == "Module " \o l.digits

SyllabusLabels(text) == {HeaderLabel(text[i]) : i \in {j \in DOMAIN text : IsHeader(text[j])}}

BeforeSelection == {"START", "PARSE_MODULES", "SELECT_CONTENT"}
BeforeGeneration == BeforeSelection \cup {"COMPOSE_PROMPT", "GENERATE"}

\* C11: a request none of whose modules has a header in the syllabus is not
\* failed before generation: the selector returns its error payload naming the
\* requested modules, the prompt composed embeds that payload, each stage up
\* to the call can run, and the one call of the completion service carries
\* that prompt; the request never ends without that call
C11_UnresolvedStillGenerates ==
    (\A i \in DOMAIN request.modules :
        request.modules[i] \notin SyllabusLabels(request.syllabus_text))
    => /\ pc \notin BeforeGeneration => calls = 1
       /\ pc \in BeforeGeneration =>
             /\ result = NoneObj
             /\ ENABLED (Start \/ ParseModules \/ SelectContent \/ ComposePrompt
                            \/ GenerateCall)
       /\ pc \notin BeforeSelection =>
             /\ module_content.kind = "error"
             /\ module_content.selected = request.modules
       /\ pc \notin BeforeSelection \cup {"COMPOSE_PROMPT"} /\ calls = 1 =>
             prompt.module_content = module_content
       /\ pc \notin BeforeGeneration /\ calls = 1 =>
             /\ llm_call.prompt = prompt
             /\ llm_call.prompt.module_content.kind = "error"

C11_Witness ==
    /\ request.modules = <<"Module 9">>
    /\ SyllabusLabels(request.syllabus_text) = {"Module 1", "Module 2"}
    /\ pc = "AWAIT"
    /\ calls = 1
    /\ llm_call.prompt.module_content.kind = "error"
    /\ llm_call.prompt.module_content.selected = <<"Module 9">>


-----------------------------------------------------------------------------
(* Inbound validation *)

\* a label in one of the two accepted forms: the keyword in any case, whitespace
\* and a number from 1 to 10, or that number alone
WellFormed(t) ==
    /\ t.pre = "" /\ t.post = ""
    /\ t.digits \in {"1", "2", "3", "4", "5", "6", "7", "8", "9", "10"}
    /\ \/ t.kw \in {"Module", "module", "MODULE"} /\ t.gap \in {" ", "  "}
       \/ t.kw = "" /\ t.gap = ""

IsBlank(t) == t.pre = "" /\ t.kw = "" /\ t.gap = "" /\ t.digits = "" /\ t.post = ""

InvalidForm(f) ==
    \/ Chars(StripLines(f.syllabus_text)) < 10
    \/ f.test_type \notin {"CAT-1", "CAT-2", "FAT"}
    \/ \A i \in DOMAIN f.modules : IsBlank(f.modules[i])
    \/ \E i \in DOMAIN f.modules : ~IsBlank(f.modules[i]) /\ ~WellFormed(f.modules[i])

-----------------------------------------------------------------------------
(* Module label normalization *)

ModuleN == {"Module " \o d : d \in {"1", "2", "3", "4", "5", "6", "7", "8", "9", "10"}}

\* the arguments pass every check other than the validator's
OtherFieldsPass ==
    /\ Chars(form.syllabus_text) >= 10
    /\ form.test_type \in {"CAT-1", "CAT-2", "FAT"}
    /\ Len(form.modules) \in 1..10

Built == pc = "CONSTRUCTED"
Refused == pc = "REJECTED"

\* the construction failed with an error that names the first token of
\* tokens that is in neither accepted form (a blank one has no text to name)
NamesFirstOffender(tokens) ==
    \E i \in DOMAIN tokens :
        /\ ~WellFormed(tokens[i])
        /\ \A j \in 1..(i - 1) : WellFormed(tokens[j])
        /\ Refused
        /\ \/ IsBlank(tokens[i])
           \/ \E k \in DOMAIN fault.err.names : fault.err.names[k] = Render(tokens[i])

\* C13 as stated: a token in either accepted form becomes "Module N", and
\* every other token, a blank one included, makes the construction fail with
\* an error that names it
C13_EveryOtherTokenRejected ==
    (pc # "CONSTRUCT" /\ OtherFieldsPass) =>
        IF \A i \in DOMAIN form.modules : WellFormed(form.modules[i])
        THEN /\ Built
             /\ request.modules = [i \in DOMAIN form.modules |->
                                      "Module " \o form.modules[i].digits]
        ELSE NamesFirstOffender(form.modules)

\* C13, amended: blank tokens are dropped without an error; of the others, a
\* token in either accepted form becomes "Module N" and any other one makes
\* the construction fail with an error that names it; a list left empty
\* fails; and every label of a constructed request is "Module N", N in 1..10
C13_NormalizationRule ==
    LET kept == SelectSeq(form.modules, LAMBDA t : ~IsBlank(t))
    IN  /\ (pc # "CONSTRUCT" /\ OtherFieldsPass) =>
              IF \A i \in DOMAIN kept : WellFormed(kept[i])
              THEN IF kept = <<>> THEN Refused
                   ELSE /\ Built
                        /\ request.modules = [i \in DOMAIN kept |->
                                                 "Module " \o kept[i].digits]
              ELSE NamesFirstOffender(kept)
        /\ Built => \A i \in DOMAIN request.modules : request.modules[i] \in ModuleN

C13_Witness ==
    /\ Built
    /\ form.modules = << Token("", "MODULE", "  ", "2", "", TRUE),
                         Token("", "", "", "10", "", TRUE),
                         Token("", "", "", "", "", TRUE) >>
    /\ request.modules = <<"Module 2", "Module 10">>

\* C14: normalization is idempotent: the labels of a constructed request,
\* given to validate_modules again, are accepted and returned unchanged
C14_NormalizationIdempotent ==
    Built =>
        validate_modules([i \in DOMAIN request.modules |-> Lex(request.modules[i])])
            = Validated(request.modules)

C14_Witness ==
    /\ Built
    /\ form.modules = << Token("", "module", " ", "1", "", FALSE),
                         Token("", "", "", "10", "", TRUE) >>
    /\ request.modules = <<"Module 1", "Module 10">>
    /\ validate_modules(<<Label("1"), Label("10")>>).value = request.modules

\* C15: every constructed request carries between 1 and 10 module labels,
\* no two of them equal
C15_DistinctLabels ==
    Built =>
        /\ Len(request.modules) \in 1..10
        /\ \A i, j \in DOMAIN request.modules :
              request.modules[i] = request.modules[j] => i = j

-----------------------------------------------------------------------------
(* Typed question parts *)

\* C16: every part of every question of a constructed GeneratedQuestionPaper
\* has a non-empty module list, marks from 1 to 10 and a text of at least 10
\* characters
C16_PartModulesNonEmpty ==
    question_paper # NoneObj =>
        \A i \in DOMAIN question_paper.paper :
            \A k \in DOMAIN question_paper.paper[i].parts :
                LET part == question_paper.paper[i].parts[k]
                IN  /\ part.marks \in 1..10
                    /\ Len(part.text) >= 10
                    /\ part.module # <<>>

-----------------------------------------------------------------------------
(* Parsing of the syllabus and selection of content *)

\* the positions of the header lines, in order
HeaderSeq(text) == SelectSeq([i \in DOMAIN text |-> i], LAMBDA i : IsHeader(text[i]))

\* the position of the first header after position i, or the end of the text
NextHeader(text, i) ==
    LET later == {j \in DOMAIN text : j > i /\ IsHeader(text[j])}
    IN  IF later = {} THEN Len(text) + 1 ELSE CHOOSE j \in later : \A k \in later : j <= k

\* the non-blank lines from the header at position i up to the next header
Block(text, i) ==
    LET part == SelectSeq(SubSeq(text, i, NextHeader(text, i) - 1), LAMBDA l : l.raw # "")
    IN  [k \in DOMAIN part |-> part[k].raw]

\* the header lines of the text are "Module 1", ..., "Module K", in this order
ModuleHeadersInOrder(text) ==
    LET h == HeaderSeq(text)
    IN  \A k \in DOMAIN h : text[h[k]].kw = "module" /\ text[h[k]].digits = ToString(k)

Parsed == pc \notin {"START", "PARSE_MODULES"}
Selected == pc \notin BeforeSelection

\* C17: for a syllabus whose header lines are "Module 1" to "Module K", K >= 0,
\* the parser returns exactly K entries, in order; entry k is keyed "Module k"
\* and holds its header line followed by exactly the non-blank lines up to the
\* next header or the end of the text; lines before the first header are in
\* no entry, and K = 0 gives the empty map
C17_ParseBlocks ==
    (Parsed /\ ModuleHeadersInOrder(request.syllabus_text)) =>
        LET h == HeaderSeq(request.syllabus_text)
        IN  /\ Len(all_modules) = Len(h)
            /\ \A k \in DOMAIN h :
                  /\ all_modules[k].key = "Module " \o ToString(k)
                  /\ all_modules[k].content = Block(request.syllabus_text, h[k])

C17_Witness ==
    /\ pc = "SELECT_CONTENT"
    /\ ModuleHeadersInOrder(request.syllabus_text)
    /\ Len(HeaderSeq(request.syllabus_text)) = 2
    /\ ~IsHeader(request.syllabus_text[1]) /\ request.syllabus_text[1].raw # ""
    /\ Len(all_modules) = 2
    /\ Len(all_modules[1].content) = 2

\* the number a run of digits stands for
DigitsValue(d) ==
    CASE d = "0" -> 0
      [] d \in {"1", "01"} -> 1
      [] d = "2" -> 2
      [] d \in {"3", "03"} -> 3
      [] d = "4" -> 4
      [] d = "5" -> 5
      [] d = "6" -> 6
      [] d = "7" -> 7
      [] d = "8" -> 8
      [] d = "9" -> 9
      [] d = "10" -> 10
      [] d = "11" -> 11

Digits == {"0", "1", "01", "2", "3", "03", "4", "5", "6", "7", "8", "9", "10", "11"}

\* the integer in a label "Module <digits>"
LabelNumber(label) == DigitsValue(CHOOSE d \in Digits : label = "Module " \o d)

\* the map has a key that is the label, or a key with the label's integer
Resolves(label) ==
    \E k \in DOMAIN all_modules :
        \/ all_modules[k].key = label
        \/ LabelNumber(all_modules[k].key) = LabelNumber(label)

\* C18: every requested label for which the map has an identical key, or a key
\* whose integer is equal though its text differs, is in found_labels; and if
\* no requested label matches a key, the string returned lists the requested
\* labels and the keys of the map
C18_FoundLabels ==
    Selected =>
        /\ \A i \in DOMAIN request.modules :
              Resolves(request.modules[i]) =>
                  \E j \in DOMAIN module_content.found :
                      module_content.found[j] = request.modules[i]
        /\ (\A i \in DOMAIN request.modules : ~Resolves(request.modules[i])) =>
              /\ module_content.kind = "error"
              /\ module_content.selected = request.modules
              /\ module_content.available = [k \in DOMAIN all_modules |-> all_modules[k].key]

\* C19: the selector always returns a string: the error payload exactly when no
\* requested label resolves, and otherwise the envelope with one section for
\* each requested label that resolves, in the order of the request, and none
\* for a label that does not
C19_PayloadIffNoneResolves ==
    /\ pc = "SELECT_CONTENT" => ENABLED SelectContent
    /\ Selected =>
          LET resolved == SelectSeq(request.modules, Resolves)
          IN  /\ module_content.kind \in {"error", "strict"}
              /\ module_content.kind = "error" <=> resolved = <<>>
              /\ [i \in DOMAIN module_content.sections |-> module_content.sections[i].name]
                    = resolved

\* C20: every section of the selector's output, and so of the prompt, is the
\* block of a header of the syllabus whose label is the requested label the
\* section is for; the error payload has no section
C20_OnlySelectedContent ==
    /\ Selected =>
          /\ \A n \in DOMAIN module_content.sections :
                LET section == module_content.sections[n]
                IN  /\ \E i \in DOMAIN request.modules : request.modules[i] = section.name
                    /\ \E i \in DOMAIN request.syllabus_text :
                          /\ IsHeader(request.syllabus_text[i])
                          /\ HeaderLabel(request.syllabus_text[i]) = section.name
                          /\ section.content = Block(request.syllabus_text, i)
          /\ module_content.kind = "error" => module_content.sections = <<>>
    /\ pc \in {"GENERATE", "AWAIT"} => prompt.module_content = module_content
    /\ pc = "AWAIT" => llm_call.prompt.module_content = module_content

C20_Witness ==
    /\ pc = "AWAIT"
    /\ request.modules = <<"Module 1">>
    /\ Len(all_modules) = 2
    /\ module_content.kind = "strict"
    /\ Len(module_content.sections) = 1
    /\ Len(module_content.sections[1].content) = 2
    /\ llm_call.prompt.module_content = module_content

\* C21: a request cancelled (or timed out) while it awaits the completion
\* service is aborted: the error leaves generate_question_paper, the repair
\* and the validation stage never run, and there is no question paper and no
\* result, so no success=true result, for that request.
C21_CancelAborts ==
    fault = Cancelled =>
        /\ pc = "CANCELLED"
        /\ raised = TRUE
        /\ result = NoneObj
        /\ question_paper = NoneObj
        /\ parsed_data = NoneObj
        /\ ~Executed("REPAIR")
        /\ ~Executed("VALIDATE")
        /\ ~ENABLED NextCancel

\* a request cancelled after its one call of the completion service
C21_Witness ==
    /\ pc = "CANCELLED"
    /\ fault = Cancelled
    /\ calls = 1
    /\ Executed("GENERATE")

\* what a caller sees of a response
Outcome(r) == <<r.success, r.message, r.question_paper>>

\* the response to a request that is alone on the generator: the stages of
\* the pipeline applied to the request and the reply, with the table as
\* __init__ built it
Alone(req, response) ==
    LET r == ParseResponse(Strip(response.value), QuestionLimits, req)
        v == _validate_question_paper(r.value, QuestionLimits, req)
    IN  IF ~response.ok
        THEN Response(FALSE, Wrap("Generation failed", GenerationFailure(response.exc.err)),
                      NoneObj, 0, "none")
        ELSE IF ~r.ok
        THEN Response(FALSE, Wrap("Generation failed", r.exc), NoneObj, 0, "none")
        ELSE IF ~v.ok
        THEN Response(FALSE, Wrap("Generation failed", ValidationFailure(v.exc)),
                      NoneObj, 0, "none")
        ELSE Response(TRUE, SuccessMessage, r.value, 0, "ollama_question_generator")

\* C22: calls interleaved at the completion await are independent: whatever
\* the other calls are and wherever they stand, the success flag, the message
\* and the paper of a finished call are those of the same request run alone
\* with the same completion response, and the prompt it sent is the prompt of
\* the request run alone.
C22_ConcurrentRequestsIndependent ==
    \A i \in TaskIds :
        /\ tasks[i].pc # "START" =>
              tasks[i].prompt = TaskPrompt(QuestionLimits, tasks[i].request)
        /\ tasks[i].pc = "DONE" =>
              Outcome(tasks[i].result) = Outcome(Alone(tasks[i].request, tasks[i].response))

\* two calls that awaited the completion service at the same time, one
\* ending in a paper and the other in a failure
C22_Witness ==
    /\ calls = MaxTasks
    /\ \A i \in TaskIds : tasks[i].pc = "DONE" /\ tasks[i].start_time = 0
    /\ \E i, j \in TaskIds :
          /\ tasks[i].request.test_type = tasks[j].request.test_type
          /\ tasks[i].request # tasks[j].request
          /\ tasks[i].result.success
          /\ ~tasks[j].result.success
          /\ tasks[j].response.ok

\* C23: in every reachable state the profile table has
\* count * marks_each = total for CAT-1, CAT-2 and FAT, and it is the table
\* __init__ built: no call of the generator, in any sequence or interleaving
\* of requests, modifies it.
C23_ProfileTableFixed ==
    /\ DOMAIN question_limits = TestTypes
    /\ \A tt \in TestTypes :
          question_limits[tt].count * question_limits[tt].marks_each
              = question_limits[tt].total
    /\ question_limits = QuestionLimits

\* every call has returned, with papers for CAT-1 and for FAT among the results
C23_Witness ==
    /\ \A i \in TaskIds : tasks[i].pc = "DONE"
    /\ \E i, j \in TaskIds :
          /\ tasks[i].result.success /\ tasks[i].request.test_type = "CAT-1"
          /\ tasks[j].result.success /\ tasks[j].request.test_type = "FAT"
    /\ question_limits = QuestionLimits

\* after is before with each key of defaults that before lacks added at its
\* default value, and nothing else changed
DefaultedFrom(before, after, defaults) ==
    /\ DOMAIN after = DOMAIN before \cup DOMAIN defaults
    /\ \A k \in DOMAIN before : after[k] = before[k]
    /\ \A k \in DOMAIN defaults \ DOMAIN before : after[k] = defaults[k]

MetadataDefaults ==
    [title |-> JStr(request.test_type \o " Question Paper"),
     test_type |-> JStr(request.test_type),
     modules |-> StrList(request.modules),
     total_marks |-> JInt(Profile.total),
     notes |-> JStr("Generated based on provided syllabus")]

ValidationDefaults ==
    [total_marks_check |-> JInt(Profile.total), unique_questions |-> JBool(TRUE)]

QuestionDefaults(i) ==
    [q_no |-> JInt(i), marks |-> JInt(Profile.marks_each), instructions |-> JNull]

\* the defaults of a part of the question q, q being already defaulted
PartDefaults(q) ==
    [label |-> JNull,
     marks |-> q["marks"],
     text |-> JStr("Question " \o PyStr(q["q_no"]) \o " content"),
     module |-> StrList(<<request.modules[1]>>)]

DictOrEmpty(j) == IF IsDict(j) THEN j.v ELSE EmptyDict

\* the question a of the defaulted paper comes from the question b of the
\* reply, at the 1-based position i, by the rules of C24
QuestionDefaulted(b, a, i) ==
    IF ~IsDict(b) THEN a = b
    ELSE /\ IsDict(a)
         /\ "parts" \in DOMAIN a.v
         /\ DefaultedFrom(Without(b.v, "parts"), Without(a.v, "parts"), QuestionDefaults(i))
         /\ IF "parts" \in DOMAIN b.v /\ IsList(b.v["parts"])
            THEN /\ IsList(a.v["parts"])
                 /\ Len(a.v["parts"].v) = Len(b.v["parts"].v)
                 /\ \A k \in DOMAIN b.v["parts"].v :
                       LET pb == b.v["parts"].v[k]
                           pa == a.v["parts"].v[k]
                       IN  IF IsDict(pb)
                           THEN IsDict(pa) /\ DefaultedFrom(pb.v, pa.v, PartDefaults(a.v))
                           ELSE pa = pb
            ELSE a.v["parts"] = JList(<<>>)

PaperDefaulted(before, after) ==
    /\ IsList(after)
    /\ Len(after.v) = Len(before.v)
    /\ \A i \in DOMAIN before.v : QuestionDefaulted(before.v[i], after.v[i], i)

\* C24 as stated: defaulting fills exactly the omitted fields and leaves the
\* present ones unchanged, parts that are absent or no list becoming the
\* empty list: the metadata's five fields are defaulted, a present metadata
\* value keeps what it holds, and every question and part follows the rules.
C24_DefaultingExact ==
    MinimalShape =>
        /\ parsed_data # NoneObj
        /\ IsDict(parsed_data["metadata"])
        /\ DOMAIN MetadataDefaults \subseteq DOMAIN parsed_data["metadata"].v
        /\ IF IsDict(SliceObject["metadata"])
           THEN DefaultedFrom(SliceObject["metadata"].v, parsed_data["metadata"].v,
                              MetadataDefaults)
           ELSE parsed_data["metadata"] = SliceObject["metadata"]
        /\ IsList(SliceObject["paper"]) =>
              PaperDefaulted(SliceObject["paper"], parsed_data["paper"])

\* C24, amended: defaulting runs only when the paper value is a list, and
\* otherwise leaves the reply as it is.  When it runs, a metadata or validation
\* value that is not an object counts as the empty object; the metadata and
\* the validation get exactly their omitted fields, at the defaults drawn from
\* the request and the profile; a question that is an object gets q_no i+1,
\* the profile's marks and instructions none where omitted, and the empty list
\* for parts that are absent or no list; a part that is an object gets label
\* none, the defaulted parent's marks, the placeholder text and the first
\* requested label where omitted; every present field keeps its value.
C24_DefaultingExactOnList ==
    MinimalShape =>
        /\ parsed_data # NoneObj
        /\ DOMAIN parsed_data = DOMAIN SliceObject
        /\ IF IsList(SliceObject["paper"])
           THEN /\ PaperDefaulted(SliceObject["paper"], parsed_data["paper"])
                /\ IsDict(parsed_data["metadata"])
                /\ DefaultedFrom(DictOrEmpty(SliceObject["metadata"]),
                                 parsed_data["metadata"].v, MetadataDefaults)
                /\ IsDict(parsed_data["validation"])
                /\ DefaultedFrom(DictOrEmpty(SliceObject["validation"]),
                                 parsed_data["validation"].v, ValidationDefaults)
           ELSE parsed_data = SliceObject

\* a question with marks of its own whose part gave only its text: the part
\* has the question's marks and the first requested label, and its text is kept
C24_Witness ==
    /\ MinimalShape
    /\ IsList(SliceObject["paper"])
    /\ \E i \in DOMAIN SliceObject["paper"].v :
          LET b == SliceObject["paper"].v[i]
              a == parsed_data["paper"].v[i]
          IN  /\ IsDict(b)
              /\ "parts" \in DOMAIN b.v /\ IsList(b.v["parts"]) /\ b.v["parts"].v # <<>>
              /\ IsDict(b.v["parts"].v[1])
              /\ DOMAIN b.v["parts"].v[1].v = {"text"}
              /\ b.v["marks"] = JInt(5)
              /\ a.v["parts"].v[1].v["marks"] = JInt(5)
              /\ a.v["parts"].v[1].v["text"] = JStr(GoodText)
              /\ a.v["parts"].v[1].v["module"] = StrList(<<request.modules[1]>>)

\* a part all of whose fields are either omitted or acceptable to QuestionPart
SoundPart(p) ==
    /\ IsDict(p)
    /\ "label" \in DOMAIN p.v => NullOrStr(p.v, "label")
    /\ "marks" \in DOMAIN p.v => IntIn(p.v, "marks", 1, 10)
    /\ "text" \in DOMAIN p.v => StrMin(p.v, "text", 10)
    /\ "module" \in DOMAIN p.v => IsStrList(p.v["module"])

\* a question all of whose fields are either omitted or acceptable to Question
SoundQuestion(q) ==
    /\ IsDict(q)
    /\ "q_no" \in DOMAIN q.v => IntIn(q.v, "q_no", 1, q.v["q_no"].v)
    /\ "marks" \in DOMAIN q.v => IntIn(q.v, "marks", 1, 10)
    /\ "instructions" \in DOMAIN q.v => NullOrStr(q.v, "instructions")
    /\ "parts" \in DOMAIN q.v =>
          /\ IsList(q.v["parts"]) /\ q.v["parts"].v # <<>>
          /\ \A k \in DOMAIN q.v["parts"].v : SoundPart(q.v["parts"].v[k])

\* a reply whose only defects are omissions of defaultable fields
OmissionsOnly(o) ==
    /\ RequiredKeys \subseteq DOMAIN o
    /\ IsDict(o["metadata"])
    /\ LET m == o["metadata"].v
       IN  /\ "title" \in DOMAIN m => StrMin(m, "title", 1)
           /\ "test_type" \in DOMAIN m => m["test_type"] \in {JStr(tt) : tt \in TestTypes}
           /\ "modules" \in DOMAIN m => IsStrList(m["modules"]) /\ m["modules"].v # <<>>
           /\ "total_marks" \in DOMAIN m => IntIn(m, "total_marks", 1, m["total_marks"].v)
           /\ "notes" \in DOMAIN m => NullOrStr(m, "notes")
    /\ IsDict(o["validation"])
    /\ LET v == o["validation"].v
       IN  /\ "total_marks_check" \in DOMAIN v => v["total_marks_check"].t = "int"
           /\ "unique_questions" \in DOMAIN v => v["unique_questions"].t = "bool"
    /\ IsList(o["paper"])
    /\ \A i \in DOMAIN o["paper"].v : SoundQuestion(o["paper"].v[i])

Repaired == Executed("REPAIR") /\ SliceIsObject

PartsOmitted(o) == \E i \in DOMAIN o["paper"].v : "parts" \notin DOMAIN o["paper"].v[i].v

\* C25 as stated: when the only defects of the parsed reply are omissions of
\* defaultable fields (of the metadata, of the validation, a question's q_no,
\* marks or parts, a part's label, marks, text or module), defaulting followed
\* by typed construction succeeds.
C25_OmissionsRecovered ==
    (Repaired /\ OmissionsOnly(SliceObject)) => question_paper # NoneObj

\* C25, amended: when the only defects of the parsed reply are omissions of
\* defaultable fields, defaulting followed by typed construction succeeds if
\* every question has its parts, and fails with the construction error if some
\* question omits them: the empty list they are defaulted to is no valid list
\* of parts.
C25_OmissionsRecoveredButParts ==
    (Repaired /\ OmissionsOnly(SliceObject)) =>
        IF PartsOmitted(SliceObject)
        THEN /\ question_paper = NoneObj
             /\ pc = "FAILURE"
             /\ fault.err.kind = "ValidationError"
             /\ Contains(result.message, ValidationFailure(fault))
        ELSE /\ question_paper # NoneObj
             /\ Len(question_paper.paper) = Len(SliceObject["paper"].v)

\* a paper built from a reply with empty metadata and validation and questions
\* that give nothing but one empty part
C25_Witness ==
    /\ Repaired
    /\ OmissionsOnly(SliceObject)
    /\ SliceObject["metadata"] = JDict(EmptyDict)
    /\ SliceObject["validation"] = JDict(EmptyDict)
    /\ Len(SliceObject["paper"].v) = Profile.count
    /\ \A i \in DOMAIN SliceObject["paper"].v : SliceObject["paper"].v[i] = SparseQuestion
    /\ question_paper # NoneObj
    /\ pc = "SUCCESS"

\* the positions of the header lines of the text whose digits are d
HeadersWith(text, d) == {i \in DOMAIN text : IsHeader(text[i]) /\ text[i].digits = d}

HeaderDigitStrings(text) == {text[i].digits : i \in {j \in DOMAIN text : IsHeader(text[j])}}

Last(S) == CHOOSE i \in S : \A j \in S : j <= i

\* C26: the parser's keys are built from the matched digits alone: the map
\* has exactly one entry per distinct digit string D among the header lines
\* (module, chapter, unit or bare-number form), keyed "Module D", and the
\* entry holds the block of the last header line whose digits are D.
C26_KeysFromDigits ==
    Parsed =>
        LET text == request.syllabus_text
        IN  /\ Len(all_modules) = Cardinality(HeaderDigitStrings(text))
            /\ {all_modules[k].key : k \in DOMAIN all_modules}
                  = {"Module " \o d : d \in HeaderDigitStrings(text)}
            /\ \A d \in HeaderDigitStrings(text) :
                  /\ DictHas(all_modules, "Module " \o d)
                  /\ DictGet(all_modules, "Module " \o d)
                        = Block(text, Last(HeadersWith(text, d)))

\* a module header and a chapter header with the same digits, text under each:
\* one entry, holding the chapter's block
C26_Witness ==
    /\ Parsed
    /\ Len(request.syllabus_text) = 4
    /\ request.syllabus_text[1].kw = "module" /\ request.syllabus_text[1].digits = "1"
    /\ request.syllabus_text[2] = Text("LED and resistor circuits")
    /\ request.syllabus_text[3].kw = "chapter" /\ request.syllabus_text[3].digits = "1"
    /\ IsHeader(request.syllabus_text[3])
    /\ request.syllabus_text[4] = Text("LED and resistor circuits")
    /\ Len(all_modules) = 1
    /\ all_modules[1].key = "Module 1"
    /\ all_modules[1].content = <<"Chapter 1 - Ports", "LED and resistor circuits">>

\* the position of the event e in the call's history, 0 when it is not there
At(e) ==
    IF \E i \in DOMAIN hybrid.events : hybrid.events[i] = e
    THEN CHOOSE i \in DOMAIN hybrid.events : hybrid.events[i] = e
    ELSE 0

Times(e) == Cardinality({i \in DOMAIN hybrid.events : hybrid.events[i] = e})

\* C27: generate_completion calls OpenRouter first; Ollama is called only
\* after the OpenRouter call has raised, and then exactly once, with the same
\* prompt, system message, temperature and max_tokens; what is returned is the
\* result of the first call that succeeded; and when both calls fail the error
\* raised is the Ollama call's.
C27_OpenRouterThenOllama ==
    /\ hybrid.pc = "RAISED" /\ hybrid.primary # NoneObj /\ hybrid.secondary # NoneObj
          => hybrid.outcome = hybrid.secondary
    /\ Times("openrouter.call") <= 1 /\ Times("ollama.call") <= 1
    /\ Len(hybrid.openrouter) = Times("openrouter.call")
    /\ Len(hybrid.ollama) = Times("ollama.call")
    /\ hybrid.pc # "CALL" => At("openrouter.call") = 1
    /\ At("ollama.call") # 0 =>
          /\ At("openrouter.raise") # 0
          /\ At("openrouter.raise") < At("ollama.call")
          /\ ~hybrid.primary.ok
          /\ hybrid.ollama[1].messages = hybrid.openrouter[1].messages
          /\ hybrid.ollama[1].messages[Len(hybrid.ollama[1].messages)].content
                = hybrid.args.prompt
          /\ hybrid.ollama[1].temperature = hybrid.args.temperature
          /\ hybrid.ollama[1].max_tokens = hybrid.args.max_tokens
          /\ hybrid.ollama[1].model = OllamaModel
    /\ At("openrouter.raise") # 0 => At("ollama.call") = At("openrouter.raise") + 1
    /\ hybrid.pc = "RETURNED" =>
          /\ hybrid.outcome.ok
          /\ IF hybrid.primary.ok
             THEN hybrid.outcome = hybrid.primary /\ hybrid.ollama = <<>>
             ELSE hybrid.outcome = hybrid.secondary

\* both clients failed, each with its own error, on a call with a system message
C27_Witness ==
    /\ hybrid.pc = "RAISED"
    /\ hybrid.primary # NoneObj /\ hybrid.secondary # NoneObj
    /\ hybrid.primary # hybrid.secondary
    /\ hybrid.outcome = hybrid.secondary
    /\ Len(hybrid.ollama) = 1
    /\ Len(hybrid.ollama[1].messages) = 2
    /\ hybrid.args.max_tokens = 4000

Marks(paper) == [i \in DOMAIN paper |-> paper[i].marks]

PerQuestionError == "Question has marks, expected"

\* C28: a typed paper (marks of every question within 1..10) that has the
\* profile's count of questions and the profile's total has the profile's
\* marks in every question, for CAT-1, CAT-2 and FAT; so validation fails with
\* the count error or with the total error, never with the per-question one.
C28_PerQuestionCheckImplied ==
    /\ fault.err.kind # PerQuestionError
    /\ question_paper # NoneObj =>
          /\ \A i \in DOMAIN question_paper.paper :
                question_paper.paper[i].marks \in 1..10
          /\ (/\ Len(question_paper.paper) = Profile.count
              /\ SumMarks(question_paper.paper) = Profile.total)
                => \A i \in DOMAIN question_paper.paper :
                      question_paper.paper[i].marks = Profile.marks_each
    /\ (pc = "FAILURE" /\ Executed("VALIDATE")) =>
          fault.err.kind \in {"Expected questions, got", "Expected total marks, got"}

\* a FAT paper of ten questions, one of them of 9 marks, refused for its total
C28_Witness ==
    /\ pc = "FAILURE"
    /\ Executed("VALIDATE")
    /\ request.test_type = "FAT"
    /\ Len(question_paper.paper) = Profile.count
    /\ \E i \in DOMAIN question_paper.paper :
          /\ question_paper.paper[i].marks = 9
          /\ \A j \in DOMAIN question_paper.paper \ {i} : question_paper.paper[j].marks = 10
    /\ fault.err.kind = "Expected total marks, got"
    /\ fault.err.b = Profile.total - 1

\* the requested labels that are keys of the map, in the order of the request
ExactMatches == SelectSeq(request.modules, LAMBDA m : DictHas(all_modules, m))

\* C29: for the labels request validation accepts and the maps the parser
\* produces, the numeric fallback of the selector resolves no label that the
\* lookup by key does not resolve: found_labels is the sequence of the
\* requested labels that are keys of the map, in the order of the request, and
\* each section holds the entry under that very key.
C29_FallbackAddsNothing ==
    Selected =>
        /\ module_content.found = ExactMatches
        /\ Len(module_content.sections) = Len(ExactMatches)
        /\ \A n \in DOMAIN module_content.sections :
              /\ module_content.sections[n].name = ExactMatches[n]
              /\ module_content.sections[n].content = DictGet(all_modules, ExactMatches[n])

\* "Module 3" requested from a syllabus whose header reads "Module 03": the
\* lookup by key fails, the fallback compares "3" with "03", nothing is found
C29_Witness ==
    /\ Selected
    /\ request.modules = <<"Module 3">>
    /\ DictHas(all_modules, "Module 03")
    /\ ~DictHas(all_modules, "Module 3")
    /\ module_content.kind = "error"
    /\ module_content.found = <<>>

\* C30: every question paper returned with success=true is consistent with
\* its request: metadata.test_type is the requested test type,
\* metadata.total_marks is the profile's total, and
\* validation.total_marks_check is the sum of the questions' marks.
C30_PaperConsistentWithRequest ==
    (pc = "SUCCESS" /\ result.success = TRUE) =>
        /\ result.question_paper.metadata.test_type = request.test_type
        /\ result.question_paper.metadata.total_marks = Profile.total
        /\ result.question_paper.validation.total_marks_check
              = SumMarks(result.question_paper.paper)

====
